---------------------------- MODULE Spec2Model ----------------------------
(***************************************************************************)
(* deepin-anything-logger: the event worker (datatype.c, EventLogger),     *)
(* the event listener (event_listener.c), the rotating log sink            *)
(* (file_log.c, FileLogger) and the config cache (config.c).               *)
(*                                                                         *)
(* Each component has its own specification (SpecWorker, SpecListener,     *)
(* SpecSink, SpecConfig); the variables of the other components keep their *)
(* initial values under it.                                                *)
(***************************************************************************)
EXTENDS Integers, Sequences, FiniteSets, TLC

VARIABLES
    \* ---- EventLogger (datatype.c:95-105) and its two threads
    is_running,      \* logger->is_running
    event_queue,     \* logger->event_queue, a FIFO of FileEvent
    worker_thread,   \* logger->worker_thread: "NULL" or "thread"
    rename_events,   \* logger->rename_events: cookie -> FileEvent
    wpc,             \* position of the worker thread in worker_thread_func
    worker_exit,     \* history: how the last worker thread left its loop
    mpc,             \* position of the calling (main) thread in start/stop/free
    in_free,         \* the running event_logger_stop was called by event_logger_free
    log_out,         \* the lines handed to logger->log_handler, in call order
    processed,       \* history: the non-sentinel events the worker dequeued, with what it did
    accepted,        \* history: the events event_logger_log_event pushed
    nevents,         \* number of FileEvents allocated so far (their identities)
    nstarts,         \* number of event_logger_start calls that created a thread
    nstops,          \* number of event_logger_stop calls that found the logger running
    \* ---- EventListener (event_listener.c:31-39)
    listener_event,  \* listener->event: NULL or the FileEvent being assembled
    event_mask,      \* listener->event_mask: the set of actions whose bit is set
    delivered,       \* the events handed to listener->handler, in call order
    frames,          \* history: the frames event_handler was called with, and what it did
    mask_sets,       \* number of successful event_listener_set_event_mask calls
    \* ---- FileLogger (file_log.c:21-28) and the files of its log directory
    max_file_size,     \* logger->max_file_size
    max_file_count,    \* logger->max_file_count
    out_stream,        \* logger->out_stream # NULL
    current_file_size, \* logger->current_file_size
    live,              \* the live file: empty when absent, else <<its content>>
    raw0,              \* base.0, the renamed live file before compression, likewise
    gz,                \* the archives: index i |-> content of base.<i>.gz, for those that exist
    clobbered,         \* history: archives that a rename or a replace has overwritten
    rotations,         \* history: counts of completed / aborted rotations, oldest deletions
    nwrites,           \* number of file_logger_log calls
    nrestarts,         \* number of times the logger was freed and created again
    \* ---- Config (config.c:46-58)
    log_file_count,    \* config->log_file_count
    log_file_size,     \* config->log_file_size
    log_events,        \* config->log_events
    print_debug_log,   \* config->print_debug_log
    disable_event_merge, \* config->disable_event_merge
    log_events_type,   \* config->log_events_type: the set of actions whose bit is set
    loaded,            \* history: the bus replies that the initial load got
    change_calls,      \* history: the change notifications handled, in order
    \* ---- main (file_log.c:437-548), its statics and its environment
    main_pc,           \* position of main
    ret,               \* main's ret, the exit code
    do_restart,        \* static do_restart (file_log.c:345)
    module_ino,        \* the inode of /sys/kernel/vfs_monitor, Absent when it does not exist
    captured_ino,      \* kenel_module_check_path_stat.st_ino (event_listener.c:529)
    signal_sources,    \* the signals whose g_unix_signal_add source is installed
    signal_pending,    \* the signals received and not yet dispatched to on_signal
    timers,            \* the g_timeout_add sources installed
    loop_quit,         \* g_main_loop_quit was called on the running loop
    built,             \* the components main holds a non-NULL pointer to
    released,          \* the free calls made after the quit label, in order
    listener_source,   \* listener->source_id > 0: the netlink watch is installed
    failed_step,       \* history: the start-up step that failed, if one did
    service_ran,       \* history: the service main loop was run
    handled,           \* history: the signals on_signal handled, with the loop that ran
    \* ---- one run of the format functions of datatype.c
    csv_in,            \* the event, or the rename pair, that is formatted
    csv_out,           \* empty, or the text of the line that was formatted
    \* ---- history of the calls of the event logger API (event_logger.h)
    last_call,         \* the last API call: its name, is_running before it, what it did
    live_threads,      \* the worker threads created and not yet joined
    discarded,         \* the ids of the events submitted while is_running was FALSE
    \* ---- the configuration applied to the listener and the process log (file_log.c)
    rc_pc,             \* where main is between config_new and the service loop
    merge_file,        \* the value last written to /sys/kernel/vfs_monitor/disable_event_merge
    debug_log,         \* the verbosity enable_debug_log was last called with
    last_reconfig,     \* history: the last change notification and the state before it
    \* ---- the publisher of the unnamed devices (file_log.c:550-742)
    mtab,              \* the mount table libmount parses: rows of major, minor, fstype
    published,         \* the minors the kernel module holds for vfs_unnamed_devices
    vfs_writes,        \* history: the writes to the control file, in order
    vfs_handled,       \* history: per mounts-changed handled, the set before and the outcome
    \* ---- the mount index of the daemon (src/daemon/src/core/mount_info.c)
    mount_table,       \* the mount table of the system: rows in the order libmount lists them
    device_mount_points,   \* device_id -> MountRecord
    child_mount_points,    \* device_id -> the mount points mounted below it
    exist_lowerfs,     \* MountInfo.exist_lowerfs
    mount_updates,     \* history: per mount_info_update, the rows it parsed
    \* ---- the control file of the listener mask (event_listener.c:389-416)
    trace_event_mask,  \* the masks /sys/kernel/vfs_monitor/trace_event_mask took, newest last
    last_mask_call,    \* history: the last event_listener_set_event_mask call
    mask_calls         \* the number of event_listener_set_event_mask calls made

workerVars == <<is_running, event_queue, worker_thread, rename_events, wpc, worker_exit, mpc,
                in_free, log_out, processed, accepted, nevents, nstarts, nstops>>

listenerVars == <<listener_event, event_mask, delivered, frames, mask_sets>>

sinkVars == <<max_file_size, max_file_count, out_stream, current_file_size, live, raw0, gz,
              clobbered, rotations, nwrites, nrestarts>>

configVars == <<log_file_count, log_file_size, log_events, print_debug_log, disable_event_merge,
                log_events_type, loaded, change_calls>>

mainVars == <<main_pc, ret, do_restart, module_ino, captured_ino, signal_sources, signal_pending,
              timers, loop_quit, built, released, listener_source, failed_step, service_ran,
              handled>>

csvVars == <<csv_in, csv_out>>

apiVars == <<last_call, live_threads, discarded>>

reconfVars == <<rc_pc, merge_file, debug_log, last_reconfig>>

vfsVars == <<mtab, published, vfs_writes, vfs_handled>>

mountVars == <<mount_table, device_mount_points, child_mount_points, exist_lowerfs,
               mount_updates>>

extVars == <<reconfVars, vfsVars, mountVars>>

maskVars == <<trace_event_mask, last_mask_call, mask_calls>>

moreVars == <<maskVars>>

auxVars == <<apiVars, extVars, moreVars>>

vars == <<workerVars, listenerVars, sinkVars, configVars, mainVars, csvVars, auxVars>>

(***************************************************************************)
(* Bounds of the model.                                                    *)
(***************************************************************************)
MaxEvents == 3
MaxStarts == 1
MaxFrames == 3
MaxMaskSets == 1
MaxWrites == 4
MaxRestarts == 1
MaxLineLen == 2
MaxFileSize == 1
MaxFileCount == 2
MaxNotifications == 2
MaxDispatch == 1
MaxCsvChars == 3
ScenarioLines == 20
ScenarioLineLen == 60
MaxIntake == 1
MaxRows == 2
MaxMountChanges == 1
MaxMounts == 2
MaxUpdates == 2
MaxMaskCalls == 2
MaxLoggerStarts == 2
MaxLeftover == 2
MaxChain == 3

(***************************************************************************)
(* FileEvent (datatype.h:37-46).  Paths are sequences of characters.       *)
(* The field id is the identity of the allocation (the FileEvent pointer). *)
(***************************************************************************)
RenameFromActions == {"ACT_RENAME_FROM_FILE", "ACT_RENAME_FROM_FOLDER"}
RenameToActions == {"ACT_RENAME_TO_FILE", "ACT_RENAME_TO_FOLDER"}
RenameActions == RenameFromActions \cup RenameToActions

ProcPath == <<"m", "v">>
NoPath == << >>

FileEvent(action, cookie, event_path, pid, process_path) ==
    [action |-> action, cookie |-> cookie, event_path |-> event_path,
     uid |-> 1000, pid |-> pid, process_path |-> process_path]

\* The events a producer submits in this model: under cookie 1 a valid
\* rename-from and valid rename-to events of both kinds, under cookie 2 a
\* valid rename-from, a valid plain event whose path needs quoting, and a
\* rename-from that fails validate_file_event.
EventMenu ==
    {FileEvent("ACT_RENAME_FROM_FILE", 1, <<"o">>, 42, ProcPath),
     FileEvent("ACT_RENAME_TO_FILE", 1, <<"n">>, 42, ProcPath),
     FileEvent("ACT_RENAME_TO_FOLDER", 1, <<"n">>, 42, ProcPath),
     FileEvent("ACT_RENAME_FROM_FOLDER", 2, <<"o">>, 42, ProcPath),
     FileEvent("ACT_NEW_FILE", 0, <<"a", ",">>, 42, ProcPath),
     FileEvent("ACT_RENAME_FROM_FILE", 1, <<"o">>, 42, NoPath)}

WithId(ev, id) ==
    [id |-> id, action |-> ev.action, cookie |-> ev.cookie, event_path |-> ev.event_path,
     uid |-> ev.uid, pid |-> ev.pid, process_path |-> ev.process_path]

\* The sentinel event_logger_stop pushes (datatype.c:510-513): g_slice_new0
\* zeroes every other field.
TerminationEvent ==
    [id |-> 0, action |-> "ACT_TERMINATE", cookie |-> 0, event_path |-> NoPath,
     uid |-> 0, pid |-> 0, process_path |-> NoPath]

(***************************************************************************)
(* Pure functions of datatype.c.                                           *)
(***************************************************************************)
event_action_to_string(action) ==
    CASE action = "ACT_NEW_FILE" -> "file-created"
      [] action = "ACT_NEW_LINK" -> "link-created"
      [] action = "ACT_NEW_SYMLINK" -> "symlink-created"
      [] action = "ACT_NEW_FOLDER" -> "folder-created"
      [] action = "ACT_DEL_FILE" -> "file-deleted"
      [] action = "ACT_DEL_FOLDER" -> "folder-deleted"
      [] action \in {"ACT_RENAME_FROM_FILE", "ACT_RENAME_TO_FILE"} -> "file-renamed"
      [] action \in {"ACT_RENAME_FROM_FOLDER", "ACT_RENAME_TO_FOLDER"} -> "folder-renamed"
      [] OTHER -> "unknown"

SpecialChars == {",", "\"", "\n", "\r"}

RECURSIVE DoubleQuotes(_)
DoubleQuotes(field) ==
    IF field = << >> THEN << >>
    ELSE (IF Head(field) = "\"" THEN <<"\"", "\"">> ELSE <<Head(field)>>)
         \o DoubleQuotes(Tail(field))

escape_csv_field_not_doubled(field) ==
    IF \A i \in DOMAIN field : field[i] \notin SpecialChars
    THEN field
    ELSE <<"\"">> \o field \o <<"\"">>

\* escape_csv_field returns NULL when nothing is to be escaped and the callers
\* then use the field itself; this operator is that combined result.
escape_csv_field(field) ==
    IF \A i \in DOMAIN field : field[i] \notin SpecialChars
    THEN field
    ELSE <<"\"">> \o DoubleQuotes(field) \o <<"\"">>

validate_file_event(event) ==
    /\ Len(event.process_path) # 0
    /\ Len(event.event_path) # 0
    /\ event.pid > 0

\* A CSV line: its fields after the timestamp, and (history) the identities
\* of the events it was formatted from.
format_single_event_csv(event) ==
    [fields |-> <<escape_csv_field(event.process_path), event.uid, event.pid,
                  event_action_to_string(event.action),
                  escape_csv_field(event.event_path)>>,
     of |-> <<event.id>>]

format_rename_event_csv_swapped(from_event, to_event) ==
    [fields |-> <<escape_csv_field(from_event.process_path), from_event.uid, from_event.pid,
                  event_action_to_string(from_event.action),
                  escape_csv_field(to_event.event_path),
                  escape_csv_field(from_event.event_path)>>,
     of |-> <<from_event.id, to_event.id>>]

format_rename_event_csv(from_event, to_event) ==
    [fields |-> <<escape_csv_field(from_event.process_path), from_event.uid, from_event.pid,
                  event_action_to_string(from_event.action),
                  escape_csv_field(from_event.event_path),
                  escape_csv_field(to_event.event_path)>>,
     of |-> <<from_event.id, to_event.id>>]

\* g_hash_table_remove / g_hash_table_insert on the cookie-keyed table.
HashRemove(table, key) == [k \in (DOMAIN table) \ {key} |-> table[k]]
HashInsert(table, key, value) ==
    [k \in (DOMAIN table) \cup {key} |-> IF k = key THEN value ELSE table[k]]

\* handle_rename_event that leaves the entry in the table when the pair is not
\* a rename-from followed by a rename-to.
handle_rename_event_entry_kept(table, out, event) ==
    IF event.cookie \notin DOMAIN table
    THEN IF event.action \in RenameFromActions
         THEN [table |-> HashInsert(table, event.cookie, event), out |-> out,
               outcome |-> "inserted"]
         ELSE [table |-> table, out |-> out, outcome |-> "orphan"]
    ELSE LET from_event == table[event.cookie]
             pair == /\ from_event.action \in RenameFromActions
                     /\ event.action \in RenameToActions
         IN [table |-> IF pair THEN HashRemove(table, event.cookie) ELSE table,
             out |-> IF pair THEN Append(out, format_rename_event_csv(from_event, event))
                     ELSE out,
             outcome |-> IF pair THEN "paired" ELSE "mismatch"]

\* handle_rename_event: the pending table and the handler calls after it, and
\* (history) which branch was taken.
handle_rename_event_orphan_logged(table, out, event) ==
    IF event.cookie \notin DOMAIN table
    THEN IF event.action \in RenameFromActions
         THEN [table |-> HashInsert(table, event.cookie, event), out |-> out,
               outcome |-> "inserted"]
         ELSE [table |-> table, out |-> Append(out, format_single_event_csv(event)),
               outcome |-> "orphan"]
    ELSE LET from_event == table[event.cookie]
             pair == /\ from_event.action \in RenameFromActions
                     /\ event.action \in RenameToActions
         IN [table |-> HashRemove(table, event.cookie),
             out |-> IF pair THEN Append(out, format_rename_event_csv(from_event, event))
                     ELSE out,
             outcome |-> IF pair THEN "paired" ELSE "mismatch"]

handle_rename_event(table, out, event) ==
    IF event.cookie \notin DOMAIN table
    THEN IF event.action \in RenameFromActions
         THEN [table |-> HashInsert(table, event.cookie, event), out |-> out,
               outcome |-> "inserted"]
         ELSE [table |-> table, out |-> out, outcome |-> "orphan"]
    ELSE LET from_event == table[event.cookie]
             pair == /\ from_event.action \in RenameFromActions
                     /\ event.action \in RenameToActions
         IN [table |-> HashRemove(table, event.cookie),
             out |-> IF pair THEN Append(out, format_rename_event_csv(from_event, event))
                     ELSE out,
             outcome |-> IF pair THEN "paired" ELSE "mismatch"]

(***************************************************************************)
(* The worker thread, worker_thread_func (datatype.c:317-362).             *)
(***************************************************************************)
\* while (logger->is_running)
worker_check ==
    /\ wpc = "check"
    /\ wpc' = IF is_running THEN "pop" ELSE "exited"
    /\ worker_exit' = IF is_running THEN worker_exit
                      ELSE IF mpc = "start_flag" THEN "flag_before_start" ELSE "flag_after_stop"
    /\ UNCHANGED <<is_running, event_queue, worker_thread, rename_events, mpc, in_free,
                   log_out, processed, accepted, nevents, nstarts, nstops>>

\* g_async_queue_pop blocks until the queue holds an event; the body of the
\* loop then runs on thread-local data and the handler.
worker_pop ==
    /\ wpc = "pop"
    /\ event_queue # << >>
    /\ LET event == Head(event_queue)
       IN /\ event_queue' = Tail(event_queue)
          /\ IF event.action = "ACT_TERMINATE"
             THEN /\ wpc' = "exited"
                  /\ worker_exit' = "sentinel"
                  /\ UNCHANGED <<rename_events, log_out, processed>>
             ELSE /\ wpc' = "check"
                  /\ UNCHANGED worker_exit
                  /\ IF ~validate_file_event(event)
                     THEN /\ processed' = Append(processed, [ev |-> event, outcome |-> "invalid"])
                          /\ UNCHANGED <<rename_events, log_out>>
                     ELSE IF event.action \in RenameActions
                     THEN LET r == handle_rename_event(rename_events, log_out, event)
                          IN /\ rename_events' = r.table
                             /\ log_out' = r.out
                             /\ processed' = Append(processed, [ev |-> event, outcome |-> r.outcome])
                     ELSE /\ log_out' = Append(log_out, format_single_event_csv(event))
                          /\ processed' = Append(processed, [ev |-> event, outcome |-> "single"])
                          /\ UNCHANGED rename_events
    /\ UNCHANGED <<is_running, worker_thread, mpc, in_free, accepted, nevents,
                   nstarts, nstops>>

(***************************************************************************)
(* The API, called from the main thread.                                   *)
(***************************************************************************)
\* event_logger_start without the test of is_running.
event_logger_start_thread_unguarded ==
    /\ mpc = "idle"
    /\ nstarts <= MaxStarts
    /\ worker_thread' = "thread"
    /\ wpc' = "check"
    /\ worker_exit' = "running"
    /\ mpc' = "start_flag"
    /\ nstarts' = nstarts + 1
    /\ UNCHANGED <<is_running, event_queue, rename_events, in_free, log_out, processed,
                   accepted, nevents, nstops>>

\* event_logger_start up to the return of g_thread_try_new (datatype.c:462-483).
event_logger_start_thread_upto(max_starts) ==
    /\ mpc = "idle"
    /\ IF is_running
       THEN UNCHANGED <<worker_thread, wpc, worker_exit, mpc, nstarts>>      \* return FALSE
       ELSE \/ /\ nstarts < max_starts
               /\ worker_thread' = "thread"
               /\ wpc' = "check"
               /\ worker_exit' = "running"
               /\ mpc' = "start_flag"
               /\ nstarts' = nstarts + 1
            \/ /\ nstarts < max_starts
               /\ worker_thread' = "NULL"       \* g_thread_try_new failed: return FALSE
               /\ UNCHANGED <<wpc, worker_exit, mpc, nstarts>>
    /\ UNCHANGED <<is_running, event_queue, rename_events, in_free, log_out, processed,
                   accepted, nevents, nstops>>

event_logger_start_thread == event_logger_start_thread_upto(MaxStarts)

\* logger->is_running = TRUE; return TRUE (datatype.c:485-487).
event_logger_start_flag ==
    /\ mpc = "start_flag"
    /\ is_running' = TRUE
    /\ mpc' = "idle"
    /\ UNCHANGED <<event_queue, worker_thread, rename_events, wpc, worker_exit, in_free, log_out,
                   processed, accepted, nevents, nstarts, nstops>>

\* event_logger_log_event without the test of is_running.
event_logger_log_event_from_unguarded(menu) ==
    /\ mpc = "idle"
    /\ nevents < MaxEvents
    /\ \E e \in menu :
          LET event == WithId(e, nevents + 1)
          IN /\ nevents' = nevents + 1
             /\ event_queue' = Append(event_queue, event)
             /\ accepted' = Append(accepted, [ev |-> event, stops |-> nstops])
    /\ UNCHANGED <<is_running, worker_thread, rename_events, wpc, worker_exit, mpc, in_free, log_out,
                   processed, nstarts, nstops>>

\* event_logger_log_event (datatype.c:539-551).
event_logger_log_event_from(menu) ==
    /\ mpc = "idle"
    /\ nevents < MaxEvents
    /\ \E e \in menu :
          LET event == WithId(e, nevents + 1)
          IN /\ nevents' = nevents + 1
             /\ IF ~is_running
                THEN UNCHANGED <<event_queue, accepted>>
                ELSE /\ event_queue' = Append(event_queue, event)
                     /\ accepted' = Append(accepted, [ev |-> event, stops |-> nstops])
    /\ UNCHANGED <<is_running, worker_thread, rename_events, wpc, worker_exit, mpc, in_free, log_out,
                   processed, nstarts, nstops>>

event_logger_log_event == event_logger_log_event_from(EventMenu)

\* Any FileEvent a caller can hand to event_logger_log_event: every action
\* kind of the table of event_action_to_string, a code the table does not
\* list, and the code 100 that is both ACT_INVALID (event_listener.c:24) and
\* ACT_TERMINATE (datatype.c:75); either path empty or not, pid 0 or not.
ListedActions ==
    {"ACT_NEW_FILE", "ACT_NEW_LINK", "ACT_NEW_SYMLINK", "ACT_NEW_FOLDER", "ACT_DEL_FILE",
     "ACT_DEL_FOLDER"} \cup RenameActions

AnyEvents ==
    {FileEvent(a, 1, ep, pid, pp) :
        a \in ListedActions \cup {"ACT_MOUNT", "ACT_TERMINATE"},
        ep \in {NoPath, <<"o">>}, pid \in {0, 42}, pp \in {NoPath, ProcPath}}

submit_any_event ==
    /\ nevents < MaxIntake
    /\ event_logger_log_event_from(AnyEvents)

NextIntake ==
    \/ event_logger_start_thread
          /\ UNCHANGED <<listenerVars, sinkVars, configVars, mainVars, csvVars, auxVars>>
    \/ event_logger_start_flag
          /\ UNCHANGED <<listenerVars, sinkVars, configVars, mainVars, csvVars, auxVars>>
    \/ submit_any_event /\ UNCHANGED <<listenerVars, sinkVars, configVars, mainVars, csvVars, auxVars>>
    \/ worker_check /\ UNCHANGED <<listenerVars, sinkVars, configVars, mainVars, csvVars, auxVars>>
    \/ worker_pop /\ UNCHANGED <<listenerVars, sinkVars, configVars, mainVars, csvVars, auxVars>>

\* event_logger_stop without the test of is_running.
event_logger_stop_flag_unguarded ==
    /\ mpc = "idle"
    /\ is_running' = FALSE
    /\ mpc' = "stop_push"
    /\ nstops' = nstops + 1
    /\ UNCHANGED <<event_queue, worker_thread, rename_events, wpc, worker_exit, in_free, log_out,
                   processed, accepted, nevents, nstarts>>

\* event_logger_stop up to logger->is_running = FALSE (datatype.c:498-507).
event_logger_stop_flag ==
    /\ mpc = "idle"
    /\ IF ~is_running
       THEN UNCHANGED <<is_running, mpc, nstops>>
       ELSE /\ is_running' = FALSE
            /\ mpc' = "stop_push"
            /\ nstops' = nstops + 1
    /\ UNCHANGED <<event_queue, worker_thread, rename_events, wpc, worker_exit, in_free, log_out,
                   processed, accepted, nevents, nstarts>>

\* g_async_queue_push(logger->event_queue, termination_event) (datatype.c:510-513).
event_logger_stop_push ==
    /\ mpc = "stop_push"
    /\ event_queue' = Append(event_queue, TerminationEvent)
    /\ mpc' = "stop_join"
    /\ UNCHANGED <<is_running, worker_thread, rename_events, wpc, worker_exit, in_free, log_out,
                   processed, accepted, nevents, nstarts, nstops>>

\* The rest of event_logger_free after its event_logger_stop returned
\* (datatype.c:424-450): the queue is emptied and the pending renames freed.
FreeCleanup ==
    /\ event_queue' = << >>
    /\ rename_events' = << >>
    /\ mpc' = "freed"
    /\ in_free' = FALSE

\* g_thread_join returns once the worker has returned (datatype.c:519-525).
event_logger_stop_join ==
    /\ mpc = "stop_join"
    /\ wpc = "exited"
    /\ wpc' = "none"
    /\ worker_thread' = "NULL"
    /\ IF in_free
       THEN FreeCleanup
       ELSE /\ mpc' = "idle"
            /\ UNCHANGED <<event_queue, rename_events, in_free>>
    /\ UNCHANGED <<worker_exit, is_running, log_out, processed, accepted, nevents, nstarts, nstops>>

\* event_logger_free (datatype.c:415-451): stop first, then clean up.
event_logger_free ==
    /\ mpc = "idle"
    /\ IF is_running
       THEN /\ is_running' = FALSE
            /\ mpc' = "stop_push"
            /\ in_free' = TRUE
            /\ nstops' = nstops + 1
            /\ UNCHANGED <<event_queue, rename_events>>
       ELSE /\ FreeCleanup
            /\ UNCHANGED <<is_running, nstops>>
    /\ UNCHANGED <<worker_thread, wpc, worker_exit, log_out, processed, accepted, nevents, nstarts>>

(***************************************************************************)
(* The API calls as a caller sees them: each call of event_logger_start,   *)
(* event_logger_stop and event_logger_log_event with the history of what   *)
(* it found and what it did.                                               *)
(***************************************************************************)
\* What a call can change of the logger and of its handler's output.
LoggerState ==
    <<is_running, event_queue, worker_thread, rename_events, wpc, worker_exit, mpc, in_free,
      log_out>>

Call(op, returned) ==
    [op |-> op, running |-> is_running, changed |-> LoggerState' # LoggerState, ret |-> returned]

NoCall == [op |-> "none", running |-> FALSE, changed |-> FALSE, ret |-> FALSE]

ApiEvents ==
    {FileEvent("ACT_NEW_FILE", 0, <<"a">>, 42, ProcPath),
     FileEvent("ACT_RENAME_FROM_FILE", 1, <<"o">>, 42, ProcPath)}

\* event_logger_start: FALSE when is_running or when no thread was created.
api_start ==
    /\ event_logger_start_thread
    /\ last_call' = Call("start", mpc' = "start_flag")
    /\ live_threads' = live_threads + (IF nstarts' # nstarts THEN 1 ELSE 0)
    /\ UNCHANGED discarded

api_stop ==
    /\ event_logger_stop_flag
    /\ last_call' = Call("stop", TRUE)
    /\ UNCHANGED <<live_threads, discarded>>

api_stop_join ==
    /\ event_logger_stop_join
    /\ live_threads' = live_threads - 1
    /\ UNCHANGED <<last_call, discarded>>

api_log_event ==
    /\ event_logger_log_event_from(ApiEvents)
    /\ last_call' = Call("log_event", TRUE)
    /\ discarded' = IF is_running THEN discarded ELSE discarded \cup {nevents'}
    /\ UNCHANGED live_threads

InitApi ==
    /\ last_call = NoCall
    /\ live_threads = 0
    /\ discarded = {}

NextApi ==
    \/ api_start
          /\ UNCHANGED <<listenerVars, sinkVars, configVars, mainVars, csvVars, extVars, moreVars>>
    \/ event_logger_start_flag
          /\ UNCHANGED <<listenerVars, sinkVars, configVars, mainVars, csvVars, auxVars>>
    \/ api_stop
          /\ UNCHANGED <<listenerVars, sinkVars, configVars, mainVars, csvVars, extVars, moreVars>>
    \/ event_logger_stop_push
          /\ UNCHANGED <<listenerVars, sinkVars, configVars, mainVars, csvVars, auxVars>>
    \/ api_stop_join
          /\ UNCHANGED <<listenerVars, sinkVars, configVars, mainVars, csvVars, extVars, moreVars>>
    \/ api_log_event
          /\ UNCHANGED <<listenerVars, sinkVars, configVars, mainVars, csvVars, extVars, moreVars>>
    \/ worker_check
          /\ UNCHANGED <<listenerVars, sinkVars, configVars, mainVars, csvVars, auxVars>>
    \/ worker_pop
          /\ UNCHANGED <<listenerVars, sinkVars, configVars, mainVars, csvVars, auxVars>>

\* event_logger_new (datatype.c:374-405).
InitWorker ==
    /\ is_running = FALSE
    /\ event_queue = << >>
    /\ worker_thread = "NULL"
    /\ rename_events = << >>
    /\ wpc = "none"
    /\ worker_exit = "none"
    /\ mpc = "idle"
    /\ in_free = FALSE
    /\ log_out = << >>
    /\ processed = << >>
    /\ accepted = << >>
    /\ nevents = 0
    /\ nstarts = 0
    /\ nstops = 0

NextWorker ==
    \/ worker_check /\ UNCHANGED <<listenerVars, sinkVars, configVars, mainVars, csvVars, auxVars>>
    \/ worker_pop /\ UNCHANGED <<listenerVars, sinkVars, configVars, mainVars, csvVars, auxVars>>
    \/ event_logger_start_thread /\ UNCHANGED <<listenerVars, sinkVars, configVars, mainVars, csvVars, auxVars>>
    \/ event_logger_start_flag /\ UNCHANGED <<listenerVars, sinkVars, configVars, mainVars, csvVars, auxVars>>
    \/ event_logger_log_event /\ UNCHANGED <<listenerVars, sinkVars, configVars, mainVars, csvVars, auxVars>>
    \/ event_logger_stop_flag /\ UNCHANGED <<listenerVars, sinkVars, configVars, mainVars, csvVars, auxVars>>
    \/ event_logger_stop_push /\ UNCHANGED <<listenerVars, sinkVars, configVars, mainVars, csvVars, auxVars>>
    \/ event_logger_stop_join /\ UNCHANGED <<listenerVars, sinkVars, configVars, mainVars, csvVars, auxVars>>
    \/ event_logger_free /\ UNCHANGED <<listenerVars, sinkVars, configVars, mainVars, csvVars, auxVars>>

(***************************************************************************)
(* The event listener (event_listener.c).                                  *)
(***************************************************************************)
MAX_PATH_LEN == 4096

\* file_event_new (event_listener.c:48-55): a zeroed FileEvent with the
\* ACT_INVALID sentinel.  n_frame and p_frame (history) are the numbers of
\* the frames its NOTIFY fields and its process fields were copied from.
file_event_new ==
    [action |-> "ACT_INVALID", cookie |-> 0, major |-> 0, minor |-> 0, event_path |-> << >>,
     uid |-> 0, pid |-> 0, process_path |-> << >>, n_frame |-> 0, p_frame |-> 0]

\* safe_string_copy (event_listener.c:78-94): at most dest_size - 1 characters.
safe_string_copy(src, dest_size) ==
    SubSeq(src, 1, IF Len(src) < dest_size - 1 THEN Len(src) ELSE dest_size - 1)

\* The frames the kernel side sends in this model.  parse_ok is the result of
\* genlmsg_parse; missing tells which required attribute is absent.
ListenerActions == {"ACT_NEW_FILE", "ACT_DEL_FILE"}

NotifyFrames ==
    {[cmd |-> "NOTIFY", parse_ok |-> TRUE, missing |-> m, act |-> a, cookie |-> 7,
      major |-> 8, minor |-> 1, path |-> <<"a">>]
        : a \in ListenerActions, m \in {"none", "other"}}
    \cup {[cmd |-> "NOTIFY", parse_ok |-> TRUE, missing |-> "act", act |-> "ACT_NEW_FILE",
           cookie |-> 7, major |-> 8, minor |-> 1, path |-> <<"a">>]}

ProcessInfoFrames ==
    {[cmd |-> "NOTIFY_PROCESS_INFO", parse_ok |-> TRUE, missing |-> m, uid |-> 1000,
      tgid |-> 42, path |-> <<"t">>] : m \in {"none", "other"}}

OtherFrames ==
    {[cmd |-> "UNKNOWN", parse_ok |-> TRUE, missing |-> "none"],
     [cmd |-> "NOTIFY", parse_ok |-> FALSE, missing |-> "none"]}

FrameMenu == NotifyFrames \cup ProcessInfoFrames \cup OtherFrames

\* (1 << act) & listener->event_mask, for the action codes of the name table.
MaskHasAction(mask, act) == act \in mask

\* listener->event is modelled as a sequence: empty for NULL, else the one
\* FileEvent being assembled.  A partial event is in flight when the slot
\* holds an event whose action is set.
NULL == << >>
PartialInFlight(slot) == slot # NULL /\ slot[1].action # "ACT_INVALID"

\* event_handler without listener->event = NULL after the delivery.
event_handler_slot_kept(slot, mask, frame, n) ==
    IF ~frame.parse_ok
    THEN [slot |-> slot, call |-> << >>]
    ELSE LET ev == IF slot = NULL THEN file_event_new ELSE slot[1]
         IN CASE frame.cmd = "NOTIFY" ->
                   IF frame.missing = "act"
                   THEN [slot |-> <<ev>>, call |-> << >>]
                   ELSE IF ~MaskHasAction(mask, frame.act)
                   THEN [slot |-> <<ev>>, call |-> << >>]
                   ELSE IF frame.missing = "other"
                   THEN [slot |-> <<[ev EXCEPT !.action = frame.act]>>, call |-> << >>]
                   ELSE [slot |-> <<[ev EXCEPT !.action = frame.act,
                                               !.cookie = frame.cookie,
                                               !.major = frame.major,
                                               !.minor = frame.minor,
                                               !.event_path = safe_string_copy(frame.path, MAX_PATH_LEN),
                                               !.n_frame = n]>>,
                         call |-> << >>]
              [] frame.cmd = "NOTIFY_PROCESS_INFO" ->
                   IF ev.action = "ACT_INVALID"
                   THEN [slot |-> <<ev>>, call |-> << >>]
                   ELSE IF frame.missing # "none"
                   THEN [slot |-> <<ev>>, call |-> << >>]
                   ELSE [slot |-> <<ev>>,
                         call |-> <<[ev EXCEPT !.uid = frame.uid,
                                               !.pid = frame.tgid,
                                               !.process_path = safe_string_copy(frame.path, MAX_PATH_LEN),
                                               !.p_frame = n]>>]
              [] OTHER -> [slot |-> <<ev>>, call |-> << >>]

\* event_handler (event_listener.c:151-252) on frame number n: the slot after
\* it, and the events handed to the handler (none or one).
event_handler(slot, mask, frame, n) ==
    IF ~frame.parse_ok
    THEN [slot |-> slot, call |-> << >>]
    ELSE LET ev == IF slot = NULL THEN file_event_new ELSE slot[1]
         IN CASE frame.cmd = "NOTIFY" ->
                   IF frame.missing = "act"
                   THEN [slot |-> <<ev>>, call |-> << >>]
                   ELSE IF ~MaskHasAction(mask, frame.act)
                   THEN [slot |-> <<ev>>, call |-> << >>]
                   ELSE IF frame.missing = "other"
                   THEN [slot |-> <<[ev EXCEPT !.action = frame.act]>>, call |-> << >>]
                   ELSE [slot |-> <<[ev EXCEPT !.action = frame.act,
                                               !.cookie = frame.cookie,
                                               !.major = frame.major,
                                               !.minor = frame.minor,
                                               !.event_path = safe_string_copy(frame.path, MAX_PATH_LEN),
                                               !.n_frame = n]>>,
                         call |-> << >>]
              [] frame.cmd = "NOTIFY_PROCESS_INFO" ->
                   IF ev.action = "ACT_INVALID"
                   THEN [slot |-> <<ev>>, call |-> << >>]
                   ELSE IF frame.missing # "none"
                   THEN [slot |-> <<ev>>, call |-> << >>]
                   ELSE [slot |-> NULL,
                         call |-> <<[ev EXCEPT !.uid = frame.uid,
                                               !.pid = frame.tgid,
                                               !.process_path = safe_string_copy(frame.path, MAX_PATH_LEN),
                                               !.p_frame = n]>>]
              [] OTHER -> [slot |-> <<ev>>, call |-> << >>]

\* on_netlink_event -> nl_recvmsgs_default -> event_handler, for one frame.
on_netlink_event_from(menu) ==
    /\ Len(frames) < MaxFrames
    /\ \E frame \in menu :
          LET r == event_handler(listener_event, event_mask, frame, Len(frames) + 1)
          IN /\ listener_event' = r.slot
             /\ delivered' = delivered \o r.call
             /\ frames' = Append(frames, [frame |-> frame, mask |-> event_mask,
                                          called |-> r.call # << >>,
                                          in_flight_after |-> PartialInFlight(r.slot),
                                          slot_after |-> r.slot])
    /\ UNCHANGED <<event_mask, mask_sets>>

on_netlink_event == on_netlink_event_from(FrameMenu)

\* event_listener_set_event_mask (event_listener.c:389-416): the in-process
\* mask changes only when the control file was opened, written and closed.
event_listener_set_event_mask ==
    /\ mask_sets < MaxMaskSets
    /\ \E mask \in SUBSET ListenerActions, io_ok \in BOOLEAN :
          IF io_ok
          THEN /\ event_mask' = mask
               /\ mask_sets' = mask_sets + 1
          ELSE UNCHANGED <<event_mask, mask_sets>>
    /\ UNCHANGED <<listener_event, delivered, frames>>

\* event_listener_new (event_listener.c:336-387).
InitListener ==
    /\ listener_event = NULL
    /\ event_mask = {}
    /\ delivered = << >>
    /\ frames = << >>
    /\ mask_sets = 0

NextListener ==
    \/ on_netlink_event /\ UNCHANGED <<workerVars, sinkVars, configVars, mainVars, csvVars, auxVars>>
    \/ event_listener_set_event_mask /\ UNCHANGED <<workerVars, sinkVars, configVars, mainVars, csvVars, auxVars>>

(***************************************************************************)
(* The rotating log sink (file_log.c, FileLogger).                         *)
(*                                                                         *)
(* A file's content is a sequence of chunks [stamp, bytes]: the bytes that *)
(* the file_logger_log call number stamp put into it.  At most one system  *)
(* call fails in one call of the API; fail.at names it ("none": no         *)
(* failure) and fail.n is its parameter.                                   *)
(***************************************************************************)
HYGIENE_LIMIT == 100

NoFile == << >>
EmptyDir == [i \in {} |-> << >>]

RECURSIVE FileSize(_)
FileSize(content) ==
    IF content = << >> THEN 0 ELSE Head(content).bytes + FileSize(Tail(content))

\* The gzip stream of a content, g_zlib_compressor_new (file_log.c:196-199).
Gzip(content) == [gzip |-> content]

Without(files, i) == [k \in (DOMAIN files) \ {i} |-> files[k]]
With(files, i, content) == [k \in (DOMAIN files) \cup {i} |-> IF k = i THEN content ELSE files[k]]

NoFailure == [at |-> "none", n |-> 0]

\* open_log_file (file_log.c:33-60): g_file_append_to creates the file when it
\* is missing; a failed size query leaves current_file_size at 0.
open_log_file(fs, fail) ==
    IF fail.at = "g_file_append_to"
    THEN [fs |-> fs, out_stream |-> FALSE, current_file_size |-> 0, ok |-> FALSE]
    ELSE LET content == IF fs.live = NoFile THEN << >> ELSE fs.live[1]
         IN [fs |-> [fs EXCEPT !.live = <<content>>],
             out_stream |-> TRUE,
             current_file_size |-> IF fail.at = "g_file_query_info" THEN 0 ELSE FileSize(content),
             ok |-> TRUE]

\* compress_file (file_log.c:172-216) on base.0: base.0.gz is replaced by the
\* gzip stream of base.0; a failed splice leaves fail.n chunks in it until
\* g_file_delete removes it; a failed unlink of base.0 is only a warning.
compress_file(fs, fail) ==
    IF fail.at \in {"g_file_read", "g_file_replace"}
    THEN [fs |-> fs, ok |-> FALSE]
    ELSE LET hit == IF 0 \in DOMAIN fs.gz THEN {fs.gz[0]} ELSE {}
             src == fs.raw0[1]
         IN CASE fail.at = "g_output_stream_splice" ->
                   [fs |-> [fs EXCEPT !.gz = Without(fs.gz, 0), !.clobbered = @ \cup hit],
                    ok |-> FALSE]
              [] fail.at = "g_file_delete" ->
                   [fs |-> [fs EXCEPT !.gz = With(fs.gz, 0, Gzip(SubSeq(src, 1, fail.n))),
                                      !.clobbered = @ \cup hit],
                    ok |-> FALSE]
              [] fail.at = "g_unlink_source" ->
                   [fs |-> [fs EXCEPT !.gz = With(fs.gz, 0, Gzip(src)), !.clobbered = @ \cup hit],
                    ok |-> TRUE]
              [] OTHER ->
                   [fs |-> [fs EXCEPT !.gz = With(fs.gz, 0, Gzip(src)), !.raw0 = NoFile,
                                      !.clobbered = @ \cup hit],
                    ok |-> TRUE]

\* The hygiene loop of rotate_logs (file_log.c:240-249), from index i: it
\* unlinks base.<i>.gz, base.<i+1>.gz, ... and stops at the first missing one.
RECURSIVE HygieneSweep(_, _, _)
HygieneSweep(files, i, fail) ==
    IF i >= HYGIENE_LIMIT \/ i \notin DOMAIN files
    THEN files
    ELSE HygieneSweep(IF fail.at = "g_unlink_old" /\ fail.n = i THEN files ELSE Without(files, i),
                      i + 1, fail)

\* The index of the oldest generation (file_log.c:252).
oldest_index(count) == count - 1

\* The destination of the rename of base.<i>.gz (file_log.c:265).
shifted_index_skip(i) == i + 2

shifted_index(i) == i + 1

\* The rename loop of rotate_logs (file_log.c:262-272), from index i down to
\* 0.  g_rename replaces an existing destination.
RECURSIVE RenameArchives(_, _, _)
RenameArchives(fs, i, fail) ==
    IF i < 0
    THEN [fs |-> fs, ok |-> TRUE]
    ELSE IF i \notin DOMAIN fs.gz
    THEN RenameArchives(fs, i - 1, fail)
    ELSE IF fail.at = "g_rename_archive" /\ fail.n = i
    THEN [fs |-> fs, ok |-> FALSE]
    ELSE LET dest == shifted_index(i)
             hit == IF dest \in DOMAIN fs.gz THEN {fs.gz[dest]} ELSE {}
         IN RenameArchives([fs EXCEPT !.gz = With(Without(fs.gz, i), dest, fs.gz[i]),
                                      !.clobbered = @ \cup hit],
                           i - 1, fail)

\* The deletion of the oldest generation (file_log.c:251-259).
unlink_oldest_skipped(fs, count, fail) ==
    [fs |-> fs, ok |-> TRUE]

unlink_oldest(fs, count, fail) ==
    IF oldest_index(count) \notin DOMAIN fs.gz
    THEN [fs |-> fs, ok |-> TRUE]
    ELSE IF fail.at = "g_unlink_oldest"
    THEN [fs |-> fs, ok |-> FALSE]
    ELSE [fs |-> [fs EXCEPT !.gz = Without(fs.gz, oldest_index(count)),
                            !.deleted = @ + 1],
          ok |-> TRUE]

ArchiveLive_uncompressed(fs, fail) ==
    IF fs.live = NoFile
    THEN [fs |-> fs, ok |-> TRUE]
    ELSE [fs |-> [fs EXCEPT !.raw0 = fs.live, !.live = NoFile], ok |-> TRUE]

\* The rename of the live file to base.0 and its compression
\* (file_log.c:274-286).
ArchiveLive(fs, fail) ==
    IF fs.live = NoFile
    THEN [fs |-> fs, ok |-> TRUE]
    ELSE IF fail.at = "g_rename_live"
    THEN [fs |-> fs, ok |-> FALSE]
    ELSE compress_file([fs EXCEPT !.raw0 = fs.live, !.live = NoFile], fail)

\* rotate_logs (file_log.c:231-295).  The stream is closed first and is open
\* again only when every step up to open_log_file succeeded; a step that
\* fails before open_log_file leaves current_file_size as it was.
rotate_logs_continues(fs, size, count, fail) ==
    LET closed(f) == [fs |-> f, out_stream |-> FALSE, current_file_size |-> size, ok |-> FALSE]
        swept == [fs EXCEPT !.gz = HygieneSweep(fs.gz, count, fail)]
        del == unlink_oldest(swept, count, fail)
        ren == RenameArchives(del.fs, count - 2, fail)
        arc == ArchiveLive(ren.fs, fail)
    IN IF ~del.ok THEN closed(ren.fs)
       ELSE IF ~ren.ok THEN closed(arc.fs)
       ELSE IF ~arc.ok THEN closed(arc.fs)
       ELSE open_log_file(arc.fs, fail)

rotate_logs(fs, size, count, fail) ==
    LET closed(f) == [fs |-> f, out_stream |-> FALSE, current_file_size |-> size, ok |-> FALSE]
        swept == [fs EXCEPT !.gz = HygieneSweep(fs.gz, count, fail)]
        del == unlink_oldest(swept, count, fail)
        ren == RenameArchives(del.fs, count - 2, fail)
        arc == ArchiveLive(ren.fs, fail)
    IN IF ~del.ok THEN closed(del.fs)
       ELSE IF ~ren.ok THEN closed(ren.fs)
       ELSE IF ~arc.ok THEN closed(arc.fs)
       ELSE open_log_file(arc.fs, fail)

\* The failures of one call, and the lengths of the lines.
Failures ==
    {NoFailure}
    \cup {[at |-> a, n |-> 0] :
            a \in {"g_unlink_oldest", "g_rename_live", "g_file_read", "g_file_replace",
                   "g_output_stream_splice", "g_unlink_source", "g_file_append_to",
                   "g_file_query_info", "g_output_stream_flush"}}
    \cup {[at |-> "g_rename_archive", n |-> i] : i \in 0..(MaxFileCount - 2)}
    \cup {[at |-> "g_file_delete", n |-> k] : k \in 0..1}
    \cup {[at |-> "g_output_stream_write_all", n |-> k] : k \in 0..(MaxLineLen - 1)}

\* The calls that file_logger_log makes when it does not rotate.
WriteFailures == {"none", "g_output_stream_write_all", "g_output_stream_flush"}

LineLens == {1, MaxLineLen}

FileSystem == [live |-> live, raw0 |-> raw0, gz |-> gz, clobbered |-> clobbered,
               deleted |-> rotations.deleted]

\* file_logger_log (file_log.c:136-170) with a line of len bytes.  On a
\* failed write the fail.n bytes already written stay in the file and
\* current_file_size is not increased.
file_logger_log_call(len, fail) ==
    /\ nwrites' = nwrites + 1
    /\ IF ~out_stream
       THEN UNCHANGED <<out_stream, current_file_size, live, raw0, gz, clobbered, rotations>>
       ELSE \E r \in {IF current_file_size > max_file_size
                      THEN rotate_logs(FileSystem, current_file_size, max_file_count, fail)
                      ELSE [fs |-> FileSystem, out_stream |-> TRUE,
                            current_file_size |-> current_file_size, ok |-> TRUE]} :
            LET rotate == current_file_size > max_file_size
                failed == fail.at = "g_output_stream_write_all"
                bytes_written == IF failed THEN fail.n ELSE len
                chunk == [stamp |-> nwrites + 1, bytes |-> bytes_written]
            IN /\ out_stream' = r.out_stream
               /\ raw0' = r.fs.raw0
               /\ gz' = r.fs.gz
               /\ clobbered' = r.fs.clobbered
               /\ rotations' = [ok |-> rotations.ok + (IF rotate /\ r.ok THEN 1 ELSE 0),
                                aborted |-> rotations.aborted + (IF rotate /\ ~r.ok THEN 1 ELSE 0),
                                deleted |-> r.fs.deleted,
                                failed_at |-> IF rotate /\ ~r.ok THEN fail
                                              ELSE rotations.failed_at,
                                failed_call |-> IF rotate /\ ~r.ok THEN nwrites + 1
                                                ELSE rotations.failed_call]
               /\ IF ~r.ok
                  THEN /\ live' = r.fs.live
                       /\ current_file_size' = r.current_file_size
                  ELSE /\ live' = IF bytes_written = 0
                                  THEN r.fs.live
                                  ELSE <<Append(r.fs.live[1], chunk)>>
                       /\ current_file_size' = IF failed
                                               THEN r.current_file_size
                                               ELSE r.current_file_size + bytes_written
    /\ UNCHANGED <<max_file_size, max_file_count, nrestarts>>

\* A call of file_logger_log with a line and at most one failing system call.
file_logger_log ==
    /\ nwrites < MaxWrites
    /\ \E len \in LineLens, fail \in Failures :
          /\ fail.at = "g_output_stream_write_all" => fail.n < len
          /\ fail.at \in WriteFailures
                \/ (out_stream /\ current_file_size > max_file_size)
          /\ file_logger_log_call(len, fail)

\* file_logger_free (file_log.c:118-126) followed by file_logger_new
\* (file_log.c:86-110) with the same arguments: the daemon is restarted.
file_logger_new ==
    /\ nrestarts < MaxRestarts
    /\ nrestarts' = nrestarts + 1
    /\ \E fail \in {NoFailure, [at |-> "g_file_append_to", n |-> 0],
                    [at |-> "g_file_query_info", n |-> 0]} :
          LET r == open_log_file(FileSystem, fail)
          IN /\ out_stream' = r.out_stream
             /\ current_file_size' = r.current_file_size
             /\ live' = r.fs.live
    /\ UNCHANGED <<max_file_size, max_file_count, raw0, gz, clobbered, rotations, nwrites>>

\* file_logger_new (file_log.c:86-110) on an empty log directory, with
\* max_file_size from sizes and max_file_count from counts.
InitSink(sizes, counts) ==
    /\ max_file_size \in sizes
    /\ max_file_count \in counts
    /\ out_stream = TRUE
    /\ current_file_size = 0
    /\ live = << << >> >>
    /\ raw0 = NoFile
    /\ gz = EmptyDir
    /\ clobbered = {}
    /\ rotations = [ok |-> 0, aborted |-> 0, deleted |-> 0, failed_at |-> NoFailure,
                    failed_call |-> 0]
    /\ nwrites = 0
    /\ nrestarts = 0

\* The archives an earlier run can have left in the log directory: any set
\* of base.<i>.gz with i below count + extra, each with a line of that run.
LeftoverArchive == Gzip(<<[stamp |-> 0, bytes |-> 1]>>)

LeftoverDirs(count, extra) ==
    {[i \in S |-> LeftoverArchive] : S \in SUBSET (0..(count + extra - 1))}

\* file_logger_new (file_log.c:86-110) on a log directory that holds the
\* archives dir and no live file.
InitSinkOn(size, count, dir) ==
    /\ max_file_size = size
    /\ max_file_count = count
    /\ out_stream = TRUE
    /\ current_file_size = 0
    /\ live = << << >> >>
    /\ raw0 = NoFile
    /\ gz = dir
    /\ clobbered = {}
    /\ rotations = [ok |-> 0, aborted |-> 0, deleted |-> 0, failed_at |-> NoFailure,
                    failed_call |-> 0]
    /\ nwrites = 0
    /\ nrestarts = 0

NextSink ==
    \/ file_logger_log /\ UNCHANGED <<workerVars, listenerVars, configVars, mainVars, csvVars, auxVars>>
    \/ file_logger_new /\ UNCHANGED <<workerVars, listenerVars, configVars, mainVars, csvVars, auxVars>>

\* The rotation scenario of test_file_logger_log_rotation (part_002:80-108)
\* with the spec's numbers: a sink with max_file_size 50 and max_file_count 3
\* on an empty directory is given 20 lines of about 60 bytes, and no system
\* call fails.
ScenarioFileSize == 50
ScenarioFileCount == 3
ScenarioLineLens == (ScenarioLineLen - 1)..(ScenarioLineLen + 1)

log_scenario_line ==
    /\ nwrites < ScenarioLines
    /\ \E len \in ScenarioLineLens : file_logger_log_call(len, NoFailure)

NextRotation ==
    \/ log_scenario_line
          /\ UNCHANGED <<workerVars, listenerVars, configVars, mainVars, csvVars, auxVars>>

(***************************************************************************)
(* The config cache (config.c) over the config bus client (dconfig.c).     *)
(*                                                                         *)
(* A reply of the bus is [type, high, low, half]: a value of the given     *)
(* variant type equal to high * 2^31 + low + half / 2 (0 <= low < 2^31),   *)
(* or no value at all (type "none": the call failed).                      *)
(***************************************************************************)
LOG_FILE_COUNT_DEFAULT == 10
LOG_FILE_SIZE_DEFAULT == 50
LOG_FILE_COUNT_MAX == 20
LOG_FILE_SIZE_MAX == 100

G_MAXINT == 2147483647
G_MININT == -G_MAXINT - 1

Int32Reply(v) ==
    [type |-> "int32", high |-> IF v < 0 THEN -1 ELSE 0,
     low |-> IF v < 0 THEN v + G_MAXINT + 1 ELSE v, half |-> 0]

BusReplies ==
    {Int32Reply(v) : v \in {-1, 0, 1, LOG_FILE_COUNT_MAX + 1, LOG_FILE_SIZE_MAX + 1}}
    \cup {[type |-> "int64", high |-> 0, low |-> 5, half |-> 0],
          [type |-> "int64", high |-> 1, low |-> 0, half |-> 0],
          [type |-> "double", high |-> 0, low |-> 0, half |-> 1],
          [type |-> "string", high |-> 0, low |-> 0, half |-> 0],
          [type |-> "none", high |-> 0, low |-> 0, half |-> 0]}

NoReply == [type |-> "none", high |-> 0, low |-> 0, half |-> 0]

\* dconfig_get_int (dconfig.c:403-462): the gint it returns and whether it
\* set the error.  A double in range is truncated towards zero.
dconfig_get_int(reply) ==
    LET whole == IF reply.high = 0 THEN reply.low ELSE reply.low - G_MAXINT - 1
        in_range == reply.high \in {-1, 0}
    IN CASE reply.type = "int32" -> [value |-> whole, error |-> FALSE]
         [] reply.type = "int64" ->
              IF in_range
              THEN [value |-> whole, error |-> FALSE]
              ELSE [value |-> 0, error |-> TRUE]
         [] reply.type = "double" ->
              IF in_range /\ ~(reply.high = 0 /\ reply.low = G_MAXINT /\ reply.half = 1)
              THEN [value |-> IF whole < 0 /\ reply.half = 1 THEN whole + 1 ELSE whole,
                    error |-> FALSE]
              ELSE [value |-> 0, error |-> TRUE]
         [] OTHER -> [value |-> 0, error |-> TRUE]

\* The conversion of a gint to the guint it is assigned to (config.c:139,
\* 212, 229), as two 16-bit halves: value mod 2^32 = hi * 2^16 + lo.
ToGuint(value) ==
    [hi |-> IF value < 0 THEN 2^16 + (value \div 2^16) ELSE value \div 2^16,
     lo |-> value % 2^16]

\* The clamp of config.c:146-150, 159-163, 215-219 and 232-236: only values
\* above the maximum are changed.
ClampToMaximum(g, maximum) ==
    IF g.hi > 0 \/ g.lo > maximum THEN maximum ELSE g.lo

\* The load of one integer key in config_load_all_values (config.c:139-163).
LoadUint(reply, default, maximum) ==
    LET r == dconfig_get_int(reply)
    IN IF r.error
       THEN ClampToMaximum(ToGuint(default), maximum)
       ELSE ClampToMaximum(ToGuint(r.value), maximum)

\* The replies of other variant types: booleans and string arrays.
BoolReply(b) == [type |-> "boolean", value |-> b]
StrvReply(names) == [type |-> "as", names |-> names]

OtherReplies ==
    {BoolReply(TRUE), BoolReply(FALSE),
     StrvReply(<<"file-created">>), StrvReply(<<"folder-renamed", "bogus">>)}

\* dconfig_get_boolean (dconfig.c:356-391): FALSE with the error set when
\* the call failed or the value is no boolean.
dconfig_get_boolean(reply) ==
    IF reply.type = "boolean"
    THEN [value |-> reply.value, error |-> FALSE]
    ELSE [value |-> FALSE, error |-> TRUE]

\* dconfig_get_string_array (dconfig.c:474-534): NULL with the error set when
\* the call failed or the value is no array of strings.
dconfig_get_string_array(reply) ==
    IF reply.type = "as"
    THEN [value |-> reply.names, error |-> FALSE]
    ELSE [value |-> << >>, error |-> TRUE]

\* event_string_to_action_mask (datatype.c:35-56): the bits of an event type
\* name, every bit (G_MAXUINT32) for a name it does not know.
G_MAXUINT32 == {"every bit"}

event_string_to_action_mask(action_str) ==
    CASE action_str = "file-created" -> {"ACT_NEW_FILE"}
      [] action_str = "link-created" -> {"ACT_NEW_LINK"}
      [] action_str = "symlink-created" -> {"ACT_NEW_SYMLINK"}
      [] action_str = "folder-created" -> {"ACT_NEW_FOLDER"}
      [] action_str = "file-deleted" -> {"ACT_DEL_FILE"}
      [] action_str = "folder-deleted" -> {"ACT_DEL_FOLDER"}
      [] action_str = "file-renamed" -> {"ACT_RENAME_FROM_FILE", "ACT_RENAME_TO_FILE"}
      [] action_str = "folder-renamed" -> {"ACT_RENAME_FROM_FOLDER", "ACT_RENAME_TO_FOLDER"}
      [] OTHER -> G_MAXUINT32

\* config_log_events_type_from_string (config.c:74-93).
config_log_events_type_from_string(event_types) ==
    UNION {event_string_to_action_mask(event_types[i]) :
             i \in {k \in DOMAIN event_types :
                      event_string_to_action_mask(event_types[k]) # G_MAXUINT32}}

LOG_EVENTS_DEFAULT == TRUE
PRINT_DEBUG_LOG_DEFAULT == FALSE
DISABLE_EVENT_MERGE_DEFAULT == FALSE
LOG_EVENTS_TYPE_DEFAULT == <<"file-deleted", "folder-deleted">>

\* The load of one boolean key in config_load_all_values (config.c:111-130).
LoadBoolean(reply, default) ==
    LET r == dconfig_get_boolean(reply)
    IN IF r.error THEN default ELSE r.value

\* The load of log_events_type in config_load_all_values (config.c:165-172).
LoadEventsType(reply) ==
    LET r == dconfig_get_string_array(reply)
    IN config_log_events_type_from_string(IF r.error THEN LOG_EVENTS_TYPE_DEFAULT ELSE r.value)

ConfigKeys == {"log_events", "log_events_type", "log_file_count", "log_file_size",
               "print_debug_log", "disable_event_merge"}

\* The cached value of a key.
Cached(key) ==
    CASE key = "log_events" -> <<log_events>>
      [] key = "log_events_type" -> <<log_events_type>>
      [] key = "log_file_count" -> <<log_file_count>>
      [] key = "log_file_size" -> <<log_file_size>>
      [] key = "print_debug_log" -> <<print_debug_log>>
      [] key = "disable_event_merge" -> <<disable_event_merge>>
      [] OTHER -> << >>

\* The reload of a boolean key in config_dconfig_changed_handler
\* (config.c:191-199, 247-264): the value dconfig_get_boolean returned is
\* stored before the error is looked at.
ReloadBoolean(cached, r) == r.value

\* config_dconfig_changed_handler (config.c:177-274): the cached value of
\* the key is reloaded from the bus; the change handler is called for a known
\* key whose reload did not fail (for an integer key, only with a new value).
config_dconfig_changed_handler ==
    /\ Len(change_calls) < MaxNotifications
    /\ \E key \in ConfigKeys \cup {"unknown"}, reply \in BusReplies \cup OtherReplies :
          LET ri == dconfig_get_int(reply)
              rb == dconfig_get_boolean(reply)
              rs == dconfig_get_string_array(reply)
              new_count == ClampToMaximum(ToGuint(ri.value), LOG_FILE_COUNT_MAX)
              new_size == ClampToMaximum(ToGuint(ri.value), LOG_FILE_SIZE_MAX)
              call(failed, changed) ==
                  Append(change_calls, [key |-> key, failed |-> failed, notified |-> changed])
          IN CASE key = "log_file_count" ->
                    /\ log_file_count' = IF ri.error THEN log_file_count ELSE new_count
                    /\ change_calls' = call(ri.error, ~ri.error /\ new_count # log_file_count)
                    /\ UNCHANGED <<log_file_size, log_events, print_debug_log,
                                   disable_event_merge, log_events_type>>
               [] key = "log_file_size" ->
                    /\ log_file_size' = IF ri.error THEN log_file_size ELSE new_size
                    /\ change_calls' = call(ri.error, ~ri.error /\ new_size # log_file_size)
                    /\ UNCHANGED <<log_file_count, log_events, print_debug_log,
                                   disable_event_merge, log_events_type>>
               [] key = "log_events" ->
                    /\ log_events' = ReloadBoolean(log_events, rb)
                    /\ change_calls' = call(rb.error, ~rb.error)
                    /\ UNCHANGED <<log_file_count, log_file_size, print_debug_log,
                                   disable_event_merge, log_events_type>>
               [] key = "print_debug_log" ->
                    /\ print_debug_log' = ReloadBoolean(print_debug_log, rb)
                    /\ change_calls' = call(rb.error, ~rb.error)
                    /\ UNCHANGED <<log_file_count, log_file_size, log_events,
                                   disable_event_merge, log_events_type>>
               [] key = "disable_event_merge" ->
                    /\ disable_event_merge' = ReloadBoolean(disable_event_merge, rb)
                    /\ change_calls' = call(rb.error, ~rb.error)
                    /\ UNCHANGED <<log_file_count, log_file_size, log_events,
                                   print_debug_log, log_events_type>>
               [] key = "log_events_type" ->
                    /\ log_events_type' = IF rs.error
                                          THEN log_events_type
                                          ELSE config_log_events_type_from_string(rs.value)
                    /\ change_calls' = call(rs.error, ~rs.error)
                    /\ UNCHANGED <<log_file_count, log_file_size, log_events,
                                   print_debug_log, disable_event_merge>>
               [] OTHER ->
                    /\ change_calls' = call(FALSE, FALSE)
                    /\ UNCHANGED <<log_file_count, log_file_size, log_events,
                                   print_debug_log, disable_event_merge, log_events_type>>
    /\ UNCHANGED loaded

\* config_new (config.c:286-314) -> config_load_all_values (config.c:101-175),
\* with the replies of the bus for the two integer keys drawn from replies
\* and one reply, drawn from others, for the four other keys.
InitConfigWith(replies, others) ==
    /\ \E count_reply \in replies, size_reply \in replies :
          /\ loaded = [log_file_count |-> count_reply, log_file_size |-> size_reply]
          /\ log_file_count = LoadUint(count_reply, LOG_FILE_COUNT_DEFAULT, LOG_FILE_COUNT_MAX)
          /\ log_file_size = LoadUint(size_reply, LOG_FILE_SIZE_DEFAULT, LOG_FILE_SIZE_MAX)
    /\ \E other \in others :
          /\ log_events = LoadBoolean(other, LOG_EVENTS_DEFAULT)
          /\ print_debug_log = LoadBoolean(other, PRINT_DEBUG_LOG_DEFAULT)
          /\ disable_event_merge = LoadBoolean(other, DISABLE_EVENT_MERGE_DEFAULT)
          /\ log_events_type = LoadEventsType(other)
    /\ change_calls = << >>

InitConfig(replies) == InitConfigWith(replies, {NoReply})

\* The replies to the initial load that the specification of the config
\* cache starts from.
LoadReplies == {Int32Reply(-1), Int32Reply(0), Int32Reply(1), NoReply}

NextConfig ==
    \/ config_dconfig_changed_handler /\ UNCHANGED <<workerVars, listenerVars, sinkVars, mainVars, csvVars, auxVars>>

(***************************************************************************)
(* The daemon: main (file_log.c:437-548), the callbacks it gives to its    *)
(* main loop (file_log.c:348-417) and the kernel module probes             *)
(* (event_listener.c:528-549).  The worker thread it starts is the one of  *)
(* the worker section; the sink and the other components appear here with  *)
(* their lifetime only.                                                    *)
(***************************************************************************)
Signals == {"SIGINT", "SIGTERM"}

\* What lstat("/sys/kernel/vfs_monitor") finds: no directory, or its inode.
Absent == "absent"
Inodes == {"ino_a", "ino_b"}

\* st_ino of the static stat buffer before any successful lstat.
Unset == "unset"

\* The order of the calls after the quit label (file_log.c:538-541).
CleanupOrder_sink_first == <<"listener", "sink", "worker", "config">>

CleanupOrder == <<"listener", "worker", "sink", "config">>

\* is_kernel_module_available (event_listener.c:531-534): a successful lstat
\* fills the static stat buffer, a failed one leaves it alone.
is_kernel_module_available(ino) == ino # Absent

StatAfterProbe(ino, stat) == IF ino # Absent THEN ino ELSE stat

is_kernel_module_reload_when_absent(ino, stat) == ino # stat

\* is_kernel_module_reload (event_listener.c:536-546).
is_kernel_module_reload(ino, stat) ==
    IF ino = Absent THEN FALSE ELSE ino # stat

\* goto quit after a failed step.
Fail(step) ==
    /\ main_pc' = "quit"
    /\ failed_step' = <<step>>

\* The main thread is not inside a call of the worker's API.
MainThreadFree == mpc \in {"idle", "freed"}

\* main has not reached the quit label: its probes and callbacks can still
\* see the module and the signals.
BeforeQuit == main_pc \notin {"quit", "exited"}

\* The kernel module is loaded, unloaded or reloaded.
module_change ==
    /\ BeforeQuit
    /\ \E ino \in {Absent} \cup Inodes :
          /\ ino # module_ino
          /\ module_ino' = ino
    /\ UNCHANGED <<main_pc, ret, do_restart, captured_ino, signal_sources, signal_pending,
                   timers, loop_quit, built, released, listener_source, failed_step,
                   service_ran, handled>>

\* A signal with a source installed by g_unix_signal_add is sent to the process.
signal_arrives ==
    /\ BeforeQuit
    /\ \E s \in signal_sources \ signal_pending :
          signal_pending' = signal_pending \cup {s}
    /\ UNCHANGED <<main_pc, ret, do_restart, module_ino, captured_ino, signal_sources,
                   timers, loop_quit, built, released, listener_source, failed_step,
                   service_ran, handled>>

\* if (geteuid() != 0) goto quit (file_log.c:450-453).
main_geteuid ==
    /\ main_pc = "geteuid"
    /\ \E root \in BOOLEAN :
          IF root THEN main_pc' = "g_main_loop_new" /\ UNCHANGED failed_step
          ELSE Fail("geteuid")
    /\ UNCHANGED <<ret, do_restart, module_ino, captured_ino, signal_sources, signal_pending,
                   timers, loop_quit, built, released, listener_source, service_ran, handled>>

\* loop = g_main_loop_new; g_unix_signal_add twice (file_log.c:456-463).
main_loop_new ==
    /\ main_pc = "g_main_loop_new"
    /\ \E ok \in BOOLEAN :
          IF ok THEN /\ main_pc' = "kernel_probe"
                     /\ signal_sources' = Signals
                     /\ UNCHANGED failed_step
          ELSE Fail("g_main_loop_new") /\ UNCHANGED signal_sources
    /\ UNCHANGED <<ret, do_restart, module_ino, captured_ino, signal_pending,
                   timers, loop_quit, built, released, listener_source, service_ran, handled>>

\* if (!is_kernel_module_available()) { g_timeout_add; g_main_loop_run ...
\* (file_log.c:466-469).
main_kernel_probe ==
    /\ main_pc = "kernel_probe"
    /\ captured_ino' = StatAfterProbe(module_ino, captured_ino)
    /\ IF is_kernel_module_available(module_ino)
       THEN /\ main_pc' = "config_new"
            /\ UNCHANGED <<timers, loop_quit>>
       ELSE /\ main_pc' = "kernel_wait"
            /\ timers' = timers \cup {"available"}
            /\ loop_quit' = FALSE
    /\ UNCHANGED <<ret, do_restart, module_ino, signal_sources, signal_pending,
                   built, released, listener_source, failed_step, service_ran, handled>>

\* g_main_loop_run is iterating the main context.
InLoop == main_pc \in {"kernel_wait", "service_loop"}

\* on_signal (file_log.c:348-353), dispatched by the running loop.
on_signal ==
    /\ InLoop
    /\ \E s \in signal_pending :
          /\ signal_pending' = signal_pending \ {s}
          /\ signal_sources' = signal_sources \ {s}          \* G_SOURCE_REMOVE
          /\ handled' = Append(handled, [signal |-> s, phase |-> main_pc])
    /\ loop_quit' = TRUE
    /\ UNCHANGED <<main_pc, ret, do_restart, module_ino, captured_ino,
                   timers, built, released, listener_source, failed_step, service_ran>>

\* check_kernel_module_available (file_log.c:396-405), every second.
check_kernel_module_available ==
    /\ InLoop
    /\ "available" \in timers
    /\ captured_ino' = StatAfterProbe(module_ino, captured_ino)
    /\ IF is_kernel_module_available(module_ino)
       THEN /\ loop_quit' = TRUE
            /\ timers' = timers \ {"available"}              \* G_SOURCE_REMOVE
       ELSE UNCHANGED <<loop_quit, timers>>                  \* G_SOURCE_CONTINUE
    /\ UNCHANGED <<main_pc, ret, do_restart, module_ino, signal_sources, signal_pending,
                   built, released, listener_source, failed_step, service_ran, handled>>

\* check_kernel_module_reload (file_log.c:407-417), every three seconds.
check_kernel_module_reload ==
    /\ InLoop
    /\ "reload" \in timers
    /\ IF is_kernel_module_reload(module_ino, captured_ino)
       THEN /\ do_restart' = TRUE
            /\ loop_quit' = TRUE
            /\ timers' = timers \ {"reload"}                 \* G_SOURCE_REMOVE
       ELSE UNCHANGED <<do_restart, loop_quit, timers>>      \* G_SOURCE_CONTINUE
    /\ UNCHANGED <<main_pc, ret, module_ino, captured_ino, signal_sources, signal_pending,
                   built, released, listener_source, failed_step, service_ran, handled>>

\* The first g_main_loop_run returns; if (!is_kernel_module_available())
\* goto quit (file_log.c:469-473).
main_kernel_recheck ==
    /\ main_pc = "kernel_wait"
    /\ loop_quit
    /\ captured_ino' = StatAfterProbe(module_ino, captured_ino)
    /\ IF is_kernel_module_available(module_ino)
       THEN main_pc' = "config_new" /\ UNCHANGED failed_step
       ELSE Fail("kernel_wait")
    /\ UNCHANGED <<ret, do_restart, module_ino, signal_sources, signal_pending,
                   timers, loop_quit, built, released, listener_source, service_ran, handled>>

\* A constructor of main: the component is built, or the step fails.
Construct(step, component, next) ==
    /\ main_pc = step
    /\ \E ok \in BOOLEAN :
          IF ok THEN /\ main_pc' = next
                     /\ built' = built \cup component
                     /\ UNCHANGED failed_step
          ELSE Fail(step) /\ UNCHANGED built
    /\ UNCHANGED <<ret, do_restart, module_ino, captured_ino, signal_sources, signal_pending,
                   timers, loop_quit, released, listener_source, service_ran, handled>>

\* config = config_new() (file_log.c:478-485).
main_config_new == Construct("config_new", {"config"}, "file_logger_new")

\* file_logger = file_logger_new(...) (file_log.c:490-496).
main_file_logger_new == Construct("file_logger_new", {"sink"}, "event_logger_new")

\* event_logger = event_logger_new(file_logger_log, file_logger) (file_log.c:499-503).
main_event_logger_new == Construct("event_logger_new", {"worker"}, "event_logger_start")

\* if (!event_logger_start(event_logger)) goto quit (file_log.c:504-507), up
\* to the return of g_thread_try_new.
main_event_logger_start ==
    /\ main_pc = "event_logger_start"
    /\ event_logger_start_thread
    /\ IF worker_thread' = "thread"
       THEN main_pc' = "event_logger_start_flag" /\ UNCHANGED failed_step
       ELSE Fail("event_logger_start")
    /\ UNCHANGED <<ret, do_restart, module_ino, captured_ino, signal_sources, signal_pending,
                   timers, loop_quit, built, released, listener_source, service_ran, handled>>

\* The rest of event_logger_start.
main_event_logger_started ==
    /\ main_pc = "event_logger_start_flag"
    /\ event_logger_start_flag
    /\ main_pc' = "event_listener_new"
    /\ UNCHANGED <<ret, do_restart, module_ino, captured_ino, signal_sources, signal_pending,
                   timers, loop_quit, built, released, listener_source, failed_step,
                   service_ran, handled>>

\* listener = event_listener_new(event_logger_log_event, event_logger) (file_log.c:510-514).
main_event_listener_new == Construct("event_listener_new", {"listener"}, "set_event_mask")

\* event_listener_set_event_mask (file_log.c:515-518).
main_set_event_mask == Construct("set_event_mask", {}, "set_disable_event_merge")

\* event_listener_set_disable_event_merge (file_log.c:519-522).
main_set_disable_event_merge == Construct("set_disable_event_merge", {}, "event_listener_start")

\* config_set_change_handler; g_timeout_add(3000, check_kernel_module_reload);
\* if (event_listener_start(listener)) g_main_loop_run(loop) (file_log.c:523-529).
main_event_listener_start ==
    /\ main_pc = "event_listener_start"
    /\ timers' = timers \cup {"reload"}
    /\ \E ok \in BOOLEAN :
          IF ok THEN /\ main_pc' = "service_loop"
                     /\ listener_source' = TRUE
                     /\ loop_quit' = FALSE
                     /\ service_ran' = TRUE
                     /\ UNCHANGED failed_step
          ELSE /\ Fail("event_listener_start")
               /\ UNCHANGED <<listener_source, loop_quit, service_ran>>
    /\ UNCHANGED <<ret, do_restart, module_ino, captured_ino, signal_sources, signal_pending,
                   built, released, handled>>

\* on_netlink_event hands an event to the listener's handler, which is
\* event_logger_log_event (file_log.c:510).
main_dispatch_event ==
    /\ main_pc = "service_loop"
    /\ listener_source
    /\ nevents < MaxDispatch
    /\ event_logger_log_event

\* The second g_main_loop_run returns; ret = do_restart ? 1 : 0 (file_log.c:529-531).
main_service_done ==
    /\ main_pc = "service_loop"
    /\ loop_quit
    /\ ret' = IF do_restart THEN 1 ELSE 0
    /\ main_pc' = "quit"
    /\ UNCHANGED <<do_restart, module_ino, captured_ino, signal_sources, signal_pending,
                   timers, loop_quit, built, released, listener_source, failed_step,
                   service_ran, handled>>

\* The next call after the quit label is the one that frees this component.
NextToFree(component) ==
    /\ main_pc = "quit"
    /\ MainThreadFree
    /\ Len(released) < Len(CleanupOrder)
    /\ CleanupOrder[Len(released) + 1] = component
    /\ released' = Append(released, component)

\* event_listener_free(listener) (file_log.c:538): event_listener_stop removes
\* the watch (event_listener.c:483-487).
main_free_listener ==
    /\ NextToFree("listener")
    /\ listener_source' = FALSE
    /\ UNCHANGED <<main_pc, ret, do_restart, module_ino, captured_ino, signal_sources,
                   signal_pending, timers, loop_quit, built, failed_step, service_ran, handled>>
    /\ UNCHANGED workerVars

\* event_logger_free(event_logger) (file_log.c:539); NULL when never built.
main_free_worker ==
    /\ NextToFree("worker")
    /\ IF "worker" \in built THEN event_logger_free ELSE UNCHANGED workerVars
    /\ UNCHANGED <<main_pc, ret, do_restart, module_ino, captured_ino, signal_sources,
                   signal_pending, timers, loop_quit, built, listener_source, failed_step,
                   service_ran, handled>>

\* file_logger_free(file_logger) (file_log.c:540).
main_free_sink ==
    /\ NextToFree("sink")
    /\ UNCHANGED <<main_pc, ret, do_restart, module_ino, captured_ino, signal_sources,
                   signal_pending, timers, loop_quit, built, listener_source, failed_step,
                   service_ran, handled>>
    /\ UNCHANGED workerVars

\* config_free(config) (file_log.c:541).
main_free_config ==
    /\ NextToFree("config")
    /\ UNCHANGED <<main_pc, ret, do_restart, module_ino, captured_ino, signal_sources,
                   signal_pending, timers, loop_quit, built, listener_source, failed_step,
                   service_ran, handled>>
    /\ UNCHANGED workerVars

\* return ret (file_log.c:546-547).
main_return ==
    /\ main_pc = "quit"
    /\ MainThreadFree
    /\ Len(released) = Len(CleanupOrder)
    /\ main_pc' = "exited"
    /\ UNCHANGED <<ret, do_restart, module_ino, captured_ino, signal_sources, signal_pending,
                   timers, loop_quit, built, released, listener_source, failed_step,
                   service_ran, handled>>

\* The state at the entry of main (file_log.c:439-445).
InitMain ==
    /\ main_pc = "geteuid"
    /\ ret = 0
    /\ do_restart = FALSE
    /\ module_ino = Absent
    /\ captured_ino = Unset
    /\ signal_sources = {}
    /\ signal_pending = {}
    /\ timers = {}
    /\ loop_quit = FALSE
    /\ built = {}
    /\ released = << >>
    /\ listener_source = FALSE
    /\ failed_step = << >>
    /\ service_ran = FALSE
    /\ handled = << >>

NextMain ==
    \/ module_change /\ UNCHANGED <<workerVars, listenerVars, sinkVars, configVars, csvVars, auxVars>>
    \/ signal_arrives /\ UNCHANGED <<workerVars, listenerVars, sinkVars, configVars, csvVars, auxVars>>
    \/ main_geteuid /\ UNCHANGED <<workerVars, listenerVars, sinkVars, configVars, csvVars, auxVars>>
    \/ main_loop_new /\ UNCHANGED <<workerVars, listenerVars, sinkVars, configVars, csvVars, auxVars>>
    \/ main_kernel_probe /\ UNCHANGED <<workerVars, listenerVars, sinkVars, configVars, csvVars, auxVars>>
    \/ on_signal /\ UNCHANGED <<workerVars, listenerVars, sinkVars, configVars, csvVars, auxVars>>
    \/ check_kernel_module_available
          /\ UNCHANGED <<workerVars, listenerVars, sinkVars, configVars, csvVars, auxVars>>
    \/ check_kernel_module_reload /\ UNCHANGED <<workerVars, listenerVars, sinkVars, configVars, csvVars, auxVars>>
    \/ main_kernel_recheck /\ UNCHANGED <<workerVars, listenerVars, sinkVars, configVars, csvVars, auxVars>>
    \/ main_config_new /\ UNCHANGED <<workerVars, listenerVars, sinkVars, configVars, csvVars, auxVars>>
    \/ main_file_logger_new /\ UNCHANGED <<workerVars, listenerVars, sinkVars, configVars, csvVars, auxVars>>
    \/ main_event_logger_new /\ UNCHANGED <<workerVars, listenerVars, sinkVars, configVars, csvVars, auxVars>>
    \/ main_event_logger_start /\ UNCHANGED <<listenerVars, sinkVars, configVars, csvVars, auxVars>>
    \/ main_event_logger_started /\ UNCHANGED <<listenerVars, sinkVars, configVars, csvVars, auxVars>>
    \/ main_event_listener_new /\ UNCHANGED <<workerVars, listenerVars, sinkVars, configVars, csvVars, auxVars>>
    \/ main_set_event_mask /\ UNCHANGED <<workerVars, listenerVars, sinkVars, configVars, csvVars, auxVars>>
    \/ main_set_disable_event_merge
          /\ UNCHANGED <<workerVars, listenerVars, sinkVars, configVars, csvVars, auxVars>>
    \/ main_event_listener_start /\ UNCHANGED <<workerVars, listenerVars, sinkVars, configVars, csvVars, auxVars>>
    \/ main_dispatch_event /\ UNCHANGED <<mainVars, listenerVars, sinkVars, configVars, csvVars, auxVars>>
    \/ main_service_done /\ UNCHANGED <<workerVars, listenerVars, sinkVars, configVars, csvVars, auxVars>>
    \/ main_free_listener /\ UNCHANGED <<listenerVars, sinkVars, configVars, csvVars, auxVars>>
    \/ main_free_worker /\ UNCHANGED <<listenerVars, sinkVars, configVars, csvVars, auxVars>>
    \/ main_free_sink /\ UNCHANGED <<listenerVars, sinkVars, configVars, csvVars, auxVars>>
    \/ main_free_config /\ UNCHANGED <<listenerVars, sinkVars, configVars, csvVars, auxVars>>
    \/ main_return /\ UNCHANGED <<workerVars, listenerVars, sinkVars, configVars, csvVars, auxVars>>
    \/ worker_check /\ UNCHANGED <<mainVars, listenerVars, sinkVars, configVars, csvVars, auxVars>>
    \/ worker_pop /\ UNCHANGED <<mainVars, listenerVars, sinkVars, configVars, csvVars, auxVars>>
    \/ event_logger_stop_push /\ UNCHANGED <<mainVars, listenerVars, sinkVars, configVars, csvVars, auxVars>>
    \/ event_logger_stop_join /\ UNCHANGED <<mainVars, listenerVars, sinkVars, configVars, csvVars, auxVars>>

(***************************************************************************)
(* The text of a CSV line (datatype.c:224-266) and its reading by an       *)
(* RFC 4180 parser.  A text is a sequence of symbols: the characters of    *)
(* the paths, and one symbol for each of the timestamp, the numbers and    *)
(* the action name, none of which holds a comma, a quote or a line break.  *)
(***************************************************************************)
Alphabet == {"a", ",", "\"", "\n", "\r"}

Timestamp == "2025-01-01 00:00:00.000"

\* The sequences of k characters over Alphabet.
Paths(k) == [1..k -> Alphabet]

NameOnlyActions ==
    {"ACT_NEW_FILE", "ACT_NEW_LINK", "ACT_NEW_SYMLINK", "ACT_NEW_FOLDER", "ACT_DEL_FILE",
     "ACT_DEL_FOLDER", "ACT_MOUNT"}

\* g_strdup_printf("%s,%s,%u,%d,%s,%s\n", ...) and, with a seventh field,
\* "%s,%s,%u,%d,%s,%s,%s\n" (datatype.c:230-236, 257-264) on the fields that
\* the format functions computed.
csv_line_text(line) ==
    LET f == line.fields
    IN <<Timestamp, ",">> \o f[1] \o <<",", ToString(f[2]), ",", ToString(f[3]), ",", f[4], ",">>
       \o f[5] \o (IF Len(f) = 6 THEN <<",">> \o f[6] ELSE << >>) \o <<"\n">>

\* No record: the text is not a CSV text.
Malformed == << >>

\* RFC 4180, section 2: records end with a line break, fields are separated
\* by commas, a field is either free of quotes, commas and line breaks or is
\* enclosed in quotes with every quote inside it doubled.  mode is where
\* the parser is: at the "start" of a field, in a "plain" field, in a
\* "quoted" field, or after a quote seen in a quoted field ("closing").
RECURSIVE Rfc4180(_, _, _, _, _)
Rfc4180(text, mode, field, record, records) ==
    IF text = << >>
    THEN IF mode = "quoted" THEN Malformed
         ELSE IF mode = "start" /\ record = << >> THEN records
         ELSE Append(records, Append(record, field))
    ELSE LET c == Head(text)
             rest == Tail(text)
             EndField == Rfc4180(rest, "start", << >>, Append(record, field), records)
             EndRecord(after) ==
                 Rfc4180(after, "start", << >>, << >>, Append(records, Append(record, field)))
             LineBreak ==
                 IF c = "\n" THEN EndRecord(rest)
                 ELSE IF rest # << >> /\ Head(rest) = "\n" THEN EndRecord(Tail(rest))
                 ELSE Malformed
         IN CASE mode = "quoted" ->
                   IF c = "\"" THEN Rfc4180(rest, "closing", field, record, records)
                   ELSE Rfc4180(rest, "quoted", Append(field, c), record, records)
              [] mode = "closing" ->
                   IF c = "\"" THEN Rfc4180(rest, "quoted", Append(field, c), record, records)
                   ELSE IF c = "," THEN EndField
                   ELSE IF c \in {"\n", "\r"} THEN LineBreak
                   ELSE Malformed
              [] OTHER ->
                   IF c = "\"" THEN IF mode = "start"
                                    THEN Rfc4180(rest, "quoted", field, record, records)
                                    ELSE Malformed
                   ELSE IF c = "," THEN EndField
                   ELSE IF c \in {"\n", "\r"} THEN LineBreak
                   ELSE Rfc4180(rest, "plain", Append(field, c), record, records)

ParseCsv(text) == Rfc4180(text, "start", << >>, << >>, << >>)

\* The events handed to the format functions: one event of a kind that is
\* logged by its name and path, or a rename-from with its rename-to.
SingleInput(action, process_path, event_path) ==
    [from |-> WithId(FileEvent(action, 0, event_path, 42, process_path), 1), to |-> << >>]

RenameInput(action, process_path, from_path, to_path) ==
    [from |-> WithId(FileEvent(action, 1, from_path, 42, process_path), 1),
     to |-> <<WithId(FileEvent(IF action = "ACT_RENAME_FROM_FILE" THEN "ACT_RENAME_TO_FILE"
                               ELSE "ACT_RENAME_TO_FOLDER", 1, to_path, 42, process_path), 2)>>]

CsvInput(action, process_path, event_path, to_path) ==
    IF action \in RenameFromActions
    THEN RenameInput(action, process_path, event_path, to_path)
    ELSE SingleInput(action, process_path, event_path)

\* The lengths of the paths of an input: MaxCsvChars characters or fewer in
\* all, no path empty; the third is the path of the rename-to, if any.
PathLengths(action) ==
    {k \in (1..MaxCsvChars) \X (1..MaxCsvChars) \X (0..MaxCsvChars) :
        /\ k[1] + k[2] + k[3] <= MaxCsvChars
        /\ k[3] = 0 <=> action \notin RenameFromActions}

\* The worker formats the event in hand (datatype.c:297, 353): the text it
\* gives to the log handler.
format_event_csv ==
    /\ csv_out = << >>
    /\ csv_out' = <<csv_line_text(IF csv_in.to = << >>
                                  THEN format_single_event_csv(csv_in.from)
                                  ELSE format_rename_event_csv(csv_in.from, csv_in.to[1]))>>
    /\ UNCHANGED csv_in

InitCsv(inputs) ==
    /\ csv_in \in inputs
    /\ csv_out = << >>

NextCsv ==
    \/ format_event_csv /\ UNCHANGED <<workerVars, listenerVars, sinkVars, configVars, mainVars, auxVars>>

(***************************************************************************)
(* The configuration applied to the running daemon: main programs the      *)
(* listener from the cache (file_log.c:486, 515-523) and                   *)
(* config_change_handler (file_log.c:383-394) does it again when the       *)
(* cache calls it from config_dconfig_changed_handler (config.c:271-273).  *)
(***************************************************************************)
\* get_log_events_type (file_log.c:364-369).
get_log_events_type(events, events_type) == IF events THEN events_type ELSE {}

\* The in-process mask after event_listener_set_event_mask(listener, mask)
\* (event_listener.c:389-416): assigned only after the control file was
\* opened, written and closed.
set_event_mask_to(mask, io_ok) == IF io_ok THEN mask ELSE event_mask

\* The control file after event_listener_set_disable_event_merge
\* (event_listener.c:418-443).
set_disable_event_merge_to(flag, io_ok) == IF io_ok THEN <<flag>> ELSE merge_file

\* enable_debug_log(config_get_boolean(config, "print_debug_log")) right
\* after config_new (file_log.c:486).
reconf_enable_debug_log ==
    /\ rc_pc = "enable_debug_log"
    /\ debug_log' = <<print_debug_log>>
    /\ rc_pc' = "set_event_mask"
    /\ UNCHANGED <<merge_file, last_reconfig, listenerVars, configVars>>

\* event_listener_set_event_mask(listener, get_log_events_type(config)), or
\* goto quit (file_log.c:515-518).
reconf_set_event_mask ==
    /\ rc_pc = "set_event_mask"
    /\ \E io_ok \in BOOLEAN :
          /\ event_mask' = set_event_mask_to(get_log_events_type(log_events, log_events_type), io_ok)
          /\ rc_pc' = IF io_ok THEN "set_disable_event_merge" ELSE "quit"
    /\ UNCHANGED <<merge_file, debug_log, last_reconfig, listener_event, delivered, frames,
                   mask_sets, configVars>>

\* event_listener_set_disable_event_merge, or goto quit; then
\* config_set_change_handler (file_log.c:519-523).
reconf_set_disable_event_merge ==
    /\ rc_pc = "set_disable_event_merge"
    /\ \E io_ok \in BOOLEAN :
          /\ merge_file' = set_disable_event_merge_to(disable_event_merge, io_ok)
          /\ rc_pc' = IF io_ok THEN "service_loop" ELSE "quit"
    /\ UNCHANGED <<debug_log, last_reconfig, listenerVars, configVars>>

\* config_change_handler (file_log.c:383-394), called with the cache already
\* updated.
config_change_handler(key, io_ok) ==
    CASE key = "print_debug_log" ->
           /\ debug_log' = <<print_debug_log'>>
           /\ UNCHANGED <<event_mask, merge_file>>
      [] key \in {"log_events_type", "log_events"} ->
           /\ event_mask' = set_event_mask_to(get_log_events_type(log_events', log_events_type'),
                                              io_ok)
           /\ UNCHANGED <<merge_file, debug_log>>
      [] key = "disable_event_merge" ->
           /\ merge_file' = set_disable_event_merge_to(disable_event_merge', io_ok)
           /\ UNCHANGED <<event_mask, debug_log>>
      [] OTHER -> UNCHANGED <<event_mask, merge_file, debug_log>>

\* One change notification of the bus, handled in the service loop:
\* config_dconfig_changed_handler and, when it calls the change handler,
\* config_change_handler.
reconf_notification ==
    /\ rc_pc = "service_loop"
    /\ config_dconfig_changed_handler
    /\ LET c == change_calls'[Len(change_calls')]
       IN \E io_ok \in BOOLEAN :
             /\ IF c.notified
                THEN config_change_handler(c.key, io_ok)
                ELSE UNCHANGED <<event_mask, merge_file, debug_log>>
             /\ last_reconfig' = [key |-> c.key, failed |-> c.failed, notified |-> c.notified,
                                  io_ok |-> io_ok,
                                  io_failed |-> last_reconfig.io_failed \/ ~io_ok,
                                  mask_before |-> event_mask,
                                  merge_before |-> merge_file, debug_before |-> debug_log]
    /\ UNCHANGED <<rc_pc, listener_event, delivered, frames, mask_sets>>

NoReconfig ==
    [key |-> "none", failed |-> FALSE, notified |-> FALSE, io_ok |-> FALSE, io_failed |-> FALSE,
     mask_before |-> {},
     merge_before |-> << >>, debug_before |-> << >>]

InitReconf(pc) ==
    /\ rc_pc = pc
    /\ merge_file = << >>
    /\ debug_log = << >>
    /\ last_reconfig = NoReconfig

InitReconfIdle == InitReconf("idle")

NextReconf ==
    \/ reconf_enable_debug_log /\ UNCHANGED <<workerVars, sinkVars, mainVars, csvVars, apiVars, vfsVars, mountVars, moreVars>>
    \/ reconf_set_event_mask /\ UNCHANGED <<workerVars, sinkVars, mainVars, csvVars, apiVars, vfsVars, mountVars, moreVars>>
    \/ reconf_set_disable_event_merge
          /\ UNCHANGED <<workerVars, sinkVars, mainVars, csvVars, apiVars, vfsVars, mountVars, moreVars>>
    \/ reconf_notification /\ UNCHANGED <<workerVars, sinkVars, mainVars, csvVars, apiVars, vfsVars, mountVars, moreVars>>

(***************************************************************************)
(* The publisher of the unnamed devices (file_log.c:550-742).  A minor is  *)
(* written and read back as its decimal text, modelled as the sequence of  *)
(* its digits; the readback of the control file is the comma-separated     *)
(* current set with a final newline.                                       *)
(***************************************************************************)
MAX_MINOR == 255

FsTypes == {"overlay", "btrfs", "fuse.dlnfs", "ulnfs"}

\* g_strdup_printf("%u", minor_num).
RECURSIVE Decimal(_)
Decimal(m) == IF m < 10 THEN <<m>> ELSE Decimal(m \div 10) \o <<m % 10>>

\* The number the kernel module reads from the decimal text of a write.
RECURSIVE DecimalValue(_)
DecimalValue(text) ==
    IF Len(text) = 1 THEN text[1]
    ELSE 10 * DecimalValue(SubSeq(text, 1, Len(text) - 1)) + text[Len(text)]

\* g_strcmp0 on two texts: -1, 0 or 1 for the order of the bytes.
RECURSIVE g_strcmp0(_, _)
g_strcmp0(a, b) ==
    CASE a = << >> /\ b = << >> -> 0
      [] a = << >> -> -1
      [] b = << >> -> 1
      [] Head(a) < Head(b) -> -1
      [] Head(a) > Head(b) -> 1
      [] OTHER -> g_strcmp0(Tail(a), Tail(b))

\* g_list_sort(list, g_strcmp0), left as the list is.
g_list_sort_not_sorted(list) == list

RECURSIVE SortedInsert(_, _)
SortedInsert(x, sorted) ==
    IF sorted = << >> \/ g_strcmp0(x, Head(sorted)) < 0
    THEN <<x>> \o sorted
    ELSE <<Head(sorted)>> \o SortedInsert(x, Tail(sorted))

RECURSIVE SortFrom(_, _)
SortFrom(list, sorted) ==
    IF list = << >> THEN sorted ELSE SortFrom(Tail(list), SortedInsert(Head(list), sorted))

\* g_list_sort(list, g_strcmp0).
g_list_sort(list) == SortFrom(list, << >>)

\* get_unnamed_device_by_fstype (file_log.c:566-607): the texts of the minors
\* found from row i on, with minor_set the minors already taken.
RECURSIVE UnnamedFrom(_, _, _)
UnnamedFrom(table, i, minor_set) ==
    IF i > Len(table) THEN << >>
    ELSE LET row == table[i]
         IN IF row.major # 0 \/ row.minor \in minor_set
            THEN UnnamedFrom(table, i + 1, minor_set)
            ELSE IF row.minor > MAX_MINOR
            THEN UnnamedFrom(table, i + 1, minor_set)
            ELSE IF row.fstype \in FsTypes
            THEN <<Decimal(row.minor)>> \o UnnamedFrom(table, i + 1, minor_set \cup {row.minor})
            ELSE UnnamedFrom(table, i + 1, minor_set)

get_unnamed_device_by_fstype(table) == UnnamedFrom(table, 1, {})

\* read_vfs_unnamed_device (file_log.c:618-641): the texts between the commas
\* of the readback, in the order the kernel module lists them.
RECURSIVE ReadbackOf(_)
ReadbackOf(minors) ==
    IF minors = {} THEN << >>
    ELSE LET m == CHOOSE x \in minors : \A y \in minors : x >= y
         IN <<Decimal(m)>> \o ReadbackOf(minors \ {m})

read_vfs_unnamed_device == ReadbackOf(published)

\* diff_sorted_lists (file_log.c:643-680): added and removed are built by
\* g_list_prepend.
RECURSIVE diff_sorted_lists(_, _, _, _)
diff_sorted_lists(list1, list2, added, removed) ==
    IF list1 # << >> /\ list2 # << >>
    THEN LET order == g_strcmp0(Head(list1), Head(list2))
         IN IF order < 0
            THEN diff_sorted_lists(Tail(list1), list2, added, <<Head(list1)>> \o removed)
            ELSE IF order > 0
            THEN diff_sorted_lists(list1, Tail(list2), <<Head(list2)>> \o added, removed)
            ELSE diff_sorted_lists(Tail(list1), Tail(list2), added, removed)
    ELSE IF list1 # << >>
    THEN diff_sorted_lists(Tail(list1), list2, added, <<Head(list1)>> \o removed)
    ELSE IF list2 # << >>
    THEN diff_sorted_lists(list1, Tail(list2), <<Head(list2)>> \o added, removed)
    ELSE [added |-> added, removed |-> removed]

\* The writes with the additions before the removals.
WritesOf_added_first(d) ==
    [i \in 1..Len(d.added) |-> [op |-> "a", arg |-> d.added[i]]]
    \o [i \in 1..Len(d.removed) |-> [op |-> "r", arg |-> d.removed[i]]]

\* The writes of update_vfs_unnamed_device (file_log.c:699-707): "r<minor>"
\* for each removed, then "a<minor>" for each added.
WritesOf(d) ==
    [i \in 1..Len(d.removed) |-> [op |-> "r", arg |-> d.removed[i]]]
    \o [i \in 1..Len(d.added) |-> [op |-> "a", arg |-> d.added[i]]]

\* The set of the kernel module after the writes.
RECURSIVE ApplyWrites(_, _)
ApplyWrites(minors, writes) ==
    IF writes = << >> THEN minors
    ELSE ApplyWrites(IF Head(writes).op = "r"
                     THEN minors \ {DecimalValue(Head(writes).arg)}
                     ELSE minors \cup {DecimalValue(Head(writes).arg)},
                     Tail(writes))

\* mounts_changed (file_log.c:717-723) -> get_unnamed_device_by_fstype,
\* update_vfs_unnamed_device (file_log.c:682-715).  mnt_table_parse_mtab can
\* fail (no row is looked at), the read of the control file can fail
\* (nothing is written), and so can fopen for the writes
\* (write_vfs_unnamed_device returns silently).
mounts_changed ==
    /\ Len(vfs_handled) < MaxMountChanges
    /\ \E parse_ok \in BOOLEAN, read_ok \in BOOLEAN, write_ok \in BOOLEAN :
          LET rows == IF parse_ok THEN mtab ELSE << >>
              news == g_list_sort(get_unnamed_device_by_fstype(rows))
              olds == g_list_sort(read_vfs_unnamed_device)
              writes == IF read_ok
                        THEN WritesOf(diff_sorted_lists(olds, news, << >>, << >>))
                        ELSE << >>
          IN /\ vfs_writes' = writes
             /\ published' = IF write_ok THEN ApplyWrites(published, writes) ELSE published
             /\ vfs_handled' = Append(vfs_handled, [before |-> published, rows |-> rows,
                                                    read_ok |-> read_ok, write_ok |-> write_ok])
    /\ UNCHANGED mtab

\* The mount rows and the mount tables of at most n rows.
MountRows == [major : {0, 8}, minor : {1, 2, 10, MAX_MINOR + 1}, fstype : {"overlay", "ext4"}]

MountTables(n) == UNION {[1..k -> MountRows] : k \in 0..n}

InitVfs(table, minors) ==
    /\ mtab = table
    /\ published = minors
    /\ vfs_writes = << >>
    /\ vfs_handled = << >>

InitVfsIdle == InitVfs(<< >>, {})

NextVfs ==
    \/ mounts_changed
          /\ UNCHANGED <<workerVars, listenerVars, sinkVars, configVars, mainVars, csvVars,
                         apiVars, reconfVars, mountVars, moreVars>>

(***************************************************************************)
(* The mount index of the daemon (src/daemon/src/core/mount_info.c).  A    *)
(* row of the mount table has the mount id, the parent mount id, the       *)
(* device, the root of the mount within its filesystem, the mount point    *)
(* (target) and the filesystem type.                                       *)
(***************************************************************************)
NoTable == << >>

LowerFsTypes == {"fuse.dlnfs", "ulnfs"}

\* is_mount_chain_all_root (mount_info.c:66-91): the walk from a parent mount
\* id through root_mount_tree, which maps the ids of the rows recorded so
\* far to their records.
RECURSIVE ParentChainReachesRoot(_, _)
ParentChainReachesRoot(root_mount_tree, parent_mount_id) ==
    IF parent_mount_id \notin DOMAIN root_mount_tree THEN FALSE
    ELSE IF root_mount_tree[parent_mount_id].mount_point = "/" THEN TRUE
    ELSE ParentChainReachesRoot(root_mount_tree, root_mount_tree[parent_mount_id].parent_mount_id)

\* is_mount_chain_all_root without the walk over the parents.
is_mount_chain_all_root_no_walk(root_mount_tree, fs) == fs.root = "/"

is_mount_chain_all_root(root_mount_tree, fs) ==
    IF fs.root # "/" THEN FALSE
    ELSE IF fs.target = "/" THEN TRUE
    ELSE ParentChainReachesRoot(root_mount_tree, fs.parent)

\* The loop of mount_info_update (mount_info.c:136-163) from row i on.
RECURSIVE UpdateFrom(_, _, _, _, _)
UpdateFrom(table, i, points, root_mount_tree, lowerfs) ==
    IF i > Len(table)
    THEN [points |-> points, tree |-> root_mount_tree, lowerfs |-> lowerfs]
    ELSE LET fs == table[i]
             record == [device_id |-> fs.device, parent_mount_id |-> fs.parent,
                        mount_point |-> fs.target]
         IN IF ~is_mount_chain_all_root(root_mount_tree, fs)
            THEN UpdateFrom(table, i + 1, points, root_mount_tree, lowerfs)
            ELSE IF fs.device \in DOMAIN points
            THEN UpdateFrom(table, i + 1, points, root_mount_tree, lowerfs)
            ELSE UpdateFrom(table, i + 1, HashInsert(points, fs.device, record),
                            HashInsert(root_mount_tree, fs.id, record),
                            lowerfs \/ fs.fstype \in LowerFsTypes)

\* mount_info_update_child_mount_points (mount_info.c:93-116): for every
\* recorded mount that has recorded children, its device and their mount
\* points.
ChildMountPoints(root_mount_tree) ==
    LET parents == {k \in DOMAIN root_mount_tree :
                      \E c \in DOMAIN root_mount_tree : root_mount_tree[c].parent_mount_id = k}
        devices == {root_mount_tree[k].device_id : k \in parents}
    IN [d \in devices |->
          LET k == CHOOSE x \in parents : root_mount_tree[x].device_id = d
          IN {root_mount_tree[c].mount_point :
                c \in {x \in DOMAIN root_mount_tree : root_mount_tree[x].parent_mount_id = k}}]

\* mount_info_update (mount_info.c:118-169): mount_info_clear and two new
\* tables, then either mnt_table_parse_mtab fails or the rows are recorded.
mount_info_update ==
    /\ Len(mount_updates) < MaxUpdates
    /\ \E parse_ok \in BOOLEAN :
          IF parse_ok
          THEN LET r == UpdateFrom(mount_table, 1, << >>, << >>, exist_lowerfs)
               IN /\ device_mount_points' = r.points
                  /\ child_mount_points' = ChildMountPoints(r.tree)
                  /\ exist_lowerfs' = r.lowerfs
                  /\ mount_updates' = Append(mount_updates, <<mount_table>>)
          ELSE /\ device_mount_points' = << >>
               /\ child_mount_points' = << >>
               /\ mount_updates' = Append(mount_updates, NoTable)
               /\ UNCHANGED exist_lowerfs
    /\ UNCHANGED mount_table

\* The system unmounts one filesystem between two updates.
umount ==
    /\ mount_updates # << >>
    /\ Len(mount_updates) < MaxUpdates
    /\ \E i \in DOMAIN mount_table :
          mount_table' = SubSeq(mount_table, 1, i - 1) \o SubSeq(mount_table, i + 1, Len(mount_table))
    /\ UNCHANGED <<device_mount_points, child_mount_points, exist_lowerfs, mount_updates>>

\* The mount tables of n mounts with the ids 1..n, in every row order.  The
\* mount at "/" is the one without a parent in the table; a device has one
\* filesystem type.
FsTypeOf(device) == IF device = "dev_l" THEN "ulnfs" ELSE "ext4"

MountOf(id, parent, device, root) ==
    [id |-> id, parent |-> parent, device |-> device, root |-> root,
     target |-> IF parent = 0 THEN "/" ELSE "/m" \o ToString(id), fstype |-> FsTypeOf(device)]

MountsOf(n, id) ==
    {MountOf(id, parent, device, root) :
        parent \in (0..n) \ {id}, device \in {"dev_a", "dev_l"}, root \in {"/", "/sub"}}

SystemMountTables(n) ==
    {t \in [1..n -> UNION {MountsOf(n, id) : id \in 1..n}] :
        \A i, j \in 1..n : i # j => t[i].id # t[j].id}

\* The mount tables of n mounts with the ids 1..n, each on a device of its
\* own, in every row order and with every choice of parents.
ChainMountsOf(n, id) ==
    {MountOf(id, parent, "dev_" \o ToString(id), root) :
        parent \in (0..n) \ {id}, root \in {"/", "/sub"}}

ChainTables(n) ==
    {t \in [1..n -> UNION {ChainMountsOf(n, id) : id \in 1..n}] :
        \A i, j \in 1..n : i # j => t[i].id # t[j].id}

\* mount_info_new before its mount_info_update: g_new0 (mount_info.c:50).
InitMount(table) ==
    /\ mount_table = table
    /\ device_mount_points = << >>
    /\ child_mount_points = << >>
    /\ exist_lowerfs = FALSE
    /\ mount_updates = << >>

InitMountIdle == InitMount(<< >>)

NextMount ==
    \/ mount_info_update
          /\ UNCHANGED <<workerVars, listenerVars, sinkVars, configVars, mainVars, csvVars,
                         apiVars, reconfVars, vfsVars, moreVars>>
    \/ umount
          /\ UNCHANGED <<workerVars, listenerVars, sinkVars, configVars, mainVars, csvVars,
                         apiVars, reconfVars, vfsVars, moreVars>>

(***************************************************************************)
(* A logger that is started, stopped and started again (datatype.c:462-526)*)
(* while one kind of plain event is submitted.                             *)
(***************************************************************************)
RestartEvents == {FileEvent("ACT_NEW_FILE", 0, <<"a">>, 42, ProcPath)}

restart_start_thread == event_logger_start_thread_upto(MaxLoggerStarts)

restart_log_event == event_logger_log_event_from(RestartEvents)

NextRestart ==
    \/ restart_start_thread
          /\ UNCHANGED <<listenerVars, sinkVars, configVars, mainVars, csvVars, auxVars>>
    \/ event_logger_start_flag
          /\ UNCHANGED <<listenerVars, sinkVars, configVars, mainVars, csvVars, auxVars>>
    \/ event_logger_stop_flag
          /\ UNCHANGED <<listenerVars, sinkVars, configVars, mainVars, csvVars, auxVars>>
    \/ event_logger_stop_push
          /\ UNCHANGED <<listenerVars, sinkVars, configVars, mainVars, csvVars, auxVars>>
    \/ event_logger_stop_join
          /\ UNCHANGED <<listenerVars, sinkVars, configVars, mainVars, csvVars, auxVars>>
    \/ restart_log_event
          /\ UNCHANGED <<listenerVars, sinkVars, configVars, mainVars, csvVars, auxVars>>
    \/ worker_check /\ UNCHANGED <<listenerVars, sinkVars, configVars, mainVars, csvVars, auxVars>>
    \/ worker_pop /\ UNCHANGED <<listenerVars, sinkVars, configVars, mainVars, csvVars, auxVars>>

(***************************************************************************)
(* The listener mask and its control file (event_listener.c:389-416).      *)
(* fprintf puts the text into the buffer of the stream and fclose flushes  *)
(* it: the attribute of the kernel module takes the mask only when the     *)
(* stream was opened, formatted and flushed.  fail_at names the call that  *)
(* fails in one event_listener_set_event_mask, "none" when none does.      *)
(***************************************************************************)
MaskFailPoints == {"none", "fopen", "fprintf", "fclose"}

MaskChoices == SUBSET {"ACT_NEW_FILE"}

MaskFrames ==
    {f \in NotifyFrames \cup ProcessInfoFrames :
        /\ f.missing = "none"
        /\ f.cmd = "NOTIFY" => f.act = "ACT_NEW_FILE"}

\* event_listener_set_event_mask that also stores the mask when fclose failed.
event_listener_set_event_mask_close_unchecked(current, mask, fail_at) ==
    [returned |-> fail_at = "none",
     written |-> fail_at = "none",
     event_mask |-> IF fail_at \in {"none", "fclose"} THEN mask ELSE current]

\* event_listener_set_event_mask (event_listener.c:389-416) on the in-process
\* mask current: what it returns, whether the control file took the mask,
\* and listener->event_mask after it.
event_listener_set_event_mask_on(current, mask, fail_at) ==
    [returned |-> fail_at = "none",
     written |-> fail_at = "none",
     event_mask |-> IF fail_at = "none" THEN mask ELSE current]

mask_set_event_mask ==
    /\ mask_calls < MaxMaskCalls
    /\ \E mask \in MaskChoices, fail_at \in MaskFailPoints :
          LET r == event_listener_set_event_mask_on(event_mask, mask, fail_at)
          IN /\ event_mask' = r.event_mask
             /\ trace_event_mask' = IF r.written THEN Append(trace_event_mask, mask)
                                    ELSE trace_event_mask
             /\ last_mask_call' = <<[mask |-> mask, fail_at |-> fail_at,
                                     returned |-> r.returned, before |-> event_mask]>>
             /\ mask_calls' = mask_calls + 1
    /\ UNCHANGED <<listener_event, delivered, frames, mask_sets>>

mask_netlink_event ==
    /\ on_netlink_event_from(MaskFrames)
    /\ UNCHANGED maskVars

InitMask ==
    /\ trace_event_mask = << >>
    /\ last_mask_call = << >>
    /\ mask_calls = 0

InitMoreIdle == InitMask

NextMask ==
    \/ mask_set_event_mask
          /\ UNCHANGED <<workerVars, sinkVars, configVars, mainVars, csvVars, apiVars, extVars>>
    \/ mask_netlink_event
          /\ UNCHANGED <<workerVars, sinkVars, configVars, mainVars, csvVars, apiVars, extVars>>

NextChain ==
    \/ mount_info_update
          /\ UNCHANGED <<workerVars, listenerVars, sinkVars, configVars, mainVars, csvVars,
                         apiVars, reconfVars, vfsVars, moreVars>>

(***************************************************************************)
(* The specifications: one per component, all from the state after the     *)
(* constructors.                                                           *)
(***************************************************************************)
InitSinkIdle == InitSink({MaxFileSize}, {MaxFileCount})

InitAux == InitApi /\ InitReconfIdle /\ InitVfsIdle /\ InitMountIdle /\ InitMoreIdle

InitConfigIdle == InitConfig({NoReply})

InitCsvIdle == InitCsv({SingleInput("ACT_NEW_FILE", <<"a">>, <<"a">>)})

InitWorkerSpec ==
    InitWorker /\ InitListener /\ InitSinkIdle /\ InitConfigIdle /\ InitMain /\ InitCsvIdle /\ InitAux

InitListenerSpec ==
    InitWorker /\ InitListener /\ InitSinkIdle /\ InitConfigIdle /\ InitMain /\ InitCsvIdle /\ InitAux

InitSinkSpec ==
    /\ InitWorker /\ InitListener /\ InitConfigIdle /\ InitMain /\ InitCsvIdle /\ InitAux
    /\ InitSink(1..MaxFileSize, 1..MaxFileCount)

InitConfigSpec ==
    /\ InitWorker /\ InitListener /\ InitSinkIdle /\ InitMain /\ InitCsvIdle /\ InitAux
    /\ InitConfigWith(LoadReplies, {NoReply, BoolReply(TRUE), StrvReply(<<"file-created">>)})

SpecWorker == InitWorkerSpec /\ [][NextWorker]_vars

SpecListener == InitListenerSpec /\ [][NextListener]_vars

SpecSink == InitSinkSpec /\ [][NextSink]_vars

SpecConfig == InitConfigSpec /\ [][NextConfig]_vars

InitMainSpec ==
    InitWorker /\ InitListener /\ InitSinkIdle /\ InitConfigIdle /\ InitMain /\ InitCsvIdle /\ InitAux

SpecMain == InitMainSpec /\ [][NextMain]_vars

InitCsvSpec ==
    /\ InitWorker /\ InitListener /\ InitSinkIdle /\ InitConfigIdle /\ InitMain /\ InitAux
    /\ csv_out = << >>
    /\ \E action \in NameOnlyActions \cup RenameFromActions :
          \E k \in PathLengths(action) :
             \E p \in Paths(k[1]), e \in Paths(k[2]), t \in Paths(k[3]) :
                csv_in = CsvInput(action, p, e, t)

SpecCsv == InitCsvSpec /\ [][NextCsv]_vars

InitRotationSpec ==
    /\ InitWorker /\ InitListener /\ InitConfigIdle /\ InitMain /\ InitCsvIdle /\ InitAux
    /\ InitSink({ScenarioFileSize}, {ScenarioFileCount})

SpecRotation == InitRotationSpec /\ [][NextRotation]_vars

InitIntakeSpec ==
    InitWorker /\ InitListener /\ InitSinkIdle /\ InitConfigIdle /\ InitMain /\ InitCsvIdle /\ InitAux

SpecIntake == InitIntakeSpec /\ [][NextIntake]_vars

InitApiSpec ==
    InitWorker /\ InitListener /\ InitSinkIdle /\ InitConfigIdle /\ InitMain /\ InitCsvIdle /\ InitAux

SpecApi == InitApiSpec /\ [][NextApi]_vars

InitRestartSpec ==
    InitWorker /\ InitListener /\ InitSinkIdle /\ InitConfigIdle /\ InitMain /\ InitCsvIdle /\ InitAux

SpecRestart == InitRestartSpec /\ [][NextRestart]_vars

InitLeftoverSpec ==
    /\ InitWorker /\ InitListener /\ InitConfigIdle /\ InitMain /\ InitCsvIdle /\ InitAux
    /\ \E dir \in LeftoverDirs(MaxFileCount, MaxLeftover) :
          InitSinkOn(MaxFileSize, MaxFileCount, dir)

SpecLeftover == InitLeftoverSpec /\ [][NextSink]_vars

InitMaskSpec ==
    InitWorker /\ InitListener /\ InitSinkIdle /\ InitConfigIdle /\ InitMain /\ InitCsvIdle /\ InitAux

SpecMask == InitMaskSpec /\ [][NextMask]_vars

InitReconfSpec ==
    /\ InitWorker /\ InitListener /\ InitSinkIdle /\ InitMain /\ InitCsvIdle /\ InitApi /\ InitMoreIdle /\ InitVfsIdle
    /\ InitMountIdle
    /\ InitConfigWith({NoReply}, {NoReply, BoolReply(TRUE), BoolReply(FALSE)})
    /\ InitReconf("enable_debug_log")

SpecReconf == InitReconfSpec /\ [][NextReconf]_vars

InitVfsSpec ==
    /\ InitWorker /\ InitListener /\ InitSinkIdle /\ InitConfigIdle /\ InitMain /\ InitCsvIdle
    /\ InitApi /\ InitMoreIdle /\ InitReconfIdle /\ InitMountIdle
    /\ vfs_writes = << >>
    /\ vfs_handled = << >>
    /\ \E table \in MountTables(MaxRows), minors \in SUBSET {1, 2, 10} :
          mtab = table /\ published = minors

SpecVfs == InitVfsSpec /\ [][NextVfs]_vars

InitMountSpec ==
    /\ InitWorker /\ InitListener /\ InitSinkIdle /\ InitConfigIdle /\ InitMain /\ InitCsvIdle
    /\ InitApi /\ InitMoreIdle /\ InitReconfIdle /\ InitVfsIdle
    /\ device_mount_points = << >>
    /\ child_mount_points = << >>
    /\ exist_lowerfs = FALSE
    /\ mount_updates = << >>
    /\ \E n \in 1..MaxMounts : \E table \in SystemMountTables(n) : mount_table = table

SpecMount == InitMountSpec /\ [][NextMount]_vars

InitChainSpec ==
    /\ InitWorker /\ InitListener /\ InitSinkIdle /\ InitConfigIdle /\ InitMain /\ InitCsvIdle
    /\ InitApi /\ InitMoreIdle /\ InitReconfIdle /\ InitVfsIdle
    /\ device_mount_points = << >>
    /\ child_mount_points = << >>
    /\ exist_lowerfs = FALSE
    /\ mount_updates = << >>
    /\ \E n \in 1..MaxChain : \E table \in ChainTables(n) : mount_table = table

SpecChain == InitChainSpec /\ [][NextChain]_vars

(***************************************************************************)
(* Properties of the event listener.                                       *)
(***************************************************************************)
WellFormed(h) == h.frame.parse_ok /\ h.frame.missing = "none"

\* C3: with the mask programmed once and not changed afterwards, a NOTIFY
\* whose action bit is not set followed by its NOTIFY_PROCESS_INFO causes no
\* call of the consumer callback, and no partial event is in flight after
\* the pair.
C3_MaskedPairSilent ==
    mask_sets <= 1 =>
        \A k \in DOMAIN frames :
            ( /\ k > 1
              /\ WellFormed(frames[k - 1])
              /\ frames[k - 1].frame.cmd = "NOTIFY"
              /\ ~MaskHasAction(frames[k - 1].mask, frames[k - 1].frame.act)
              /\ WellFormed(frames[k])
              /\ frames[k].frame.cmd = "NOTIFY_PROCESS_INFO" )
            => (~frames[k].called /\ ~frames[k].in_flight_after)


\* Frame k is a NOTIFY with all its attributes whose action bit was set in
\* the mask when it arrived.
AcceptedNotify(k) ==
    /\ WellFormed(frames[k])
    /\ frames[k].frame.cmd = "NOTIFY"
    /\ MaskHasAction(frames[k].mask, frames[k].frame.act)

IsProcessInfo(k) == frames[k].frame.parse_ok /\ frames[k].frame.cmd = "NOTIFY_PROCESS_INFO"

InFlightBefore(k) == k > 1 /\ frames[k - 1].in_flight_after

\* Frame k is a NOTIFY_PROCESS_INFO that was not skipped for a missing
\* attribute (event_listener.c:226-228).
HandledProcessInfo(k) ==
    IsProcessInfo(k) /\ ~(frames[k].frame.missing # "none" /\ InFlightBefore(k))

\* The slot as a NOTIFY leaves it when nothing of an older event is in it.
FreshPartial(k) ==
    [file_event_new EXCEPT !.action = frames[k].frame.act,
                           !.cookie = frames[k].frame.cookie,
                           !.major = frames[k].frame.major,
                           !.minor = frames[k].frame.minor,
                           !.event_path = frames[k].frame.path,
                           !.n_frame = k]

\* C29: after every frame a partial event is in flight exactly when a NOTIFY
\* was accepted and no NOTIFY_PROCESS_INFO was handled since; a NOTIFY
\* accepted while a partial is in flight delivers nothing and leaves in the
\* slot only its own action, cookie, device and path; and every delivered
\* event carries the action, cookie, device and path of the last NOTIFY
\* accepted before its NOTIFY_PROCESS_INFO.
C29_SinglePartialInFlight ==
    /\ \A k \in DOMAIN frames :
          /\ frames[k].in_flight_after <=>
                \E j \in 1..k : AcceptedNotify(j) /\ \A m \in (j + 1)..k : ~HandledProcessInfo(m)
          /\ (AcceptedNotify(k) /\ InFlightBefore(k))
             => (~frames[k].called /\ frames[k].slot_after = <<FreshPartial(k)>>)
    /\ \A d \in DOMAIN delivered :
          /\ delivered[d].n_frame \in 1..(delivered[d].p_frame - 1)
          /\ AcceptedNotify(delivered[d].n_frame)
          /\ \A m \in (delivered[d].n_frame + 1)..(delivered[d].p_frame - 1) : ~AcceptedNotify(m)
          /\ delivered[d].action = frames[delivered[d].n_frame].frame.act

\* The statement of C29 when every NOTIFY carries all its attributes.
NotifyFramesComplete ==
    \A k \in DOMAIN frames :
       (frames[k].frame.parse_ok /\ frames[k].frame.cmd = "NOTIFY") => WellFormed(frames[k])

C29_CompleteNotifyOnly == NotifyFramesComplete => C29_SinglePartialInFlight

SlotBefore(k) == IF k = 1 THEN NULL ELSE frames[k - 1].slot_after

SlotEvent(slot) == IF slot = NULL THEN file_event_new ELSE slot[1]

\* Frame k lacks a required attribute or has a command that is not known.
SkippedFrame(k) ==
    /\ frames[k].frame.parse_ok
    /\ \/ frames[k].frame.cmd \in {"NOTIFY", "NOTIFY_PROCESS_INFO"} /\ frames[k].frame.missing # "none"
       \/ frames[k].frame.cmd = "UNKNOWN"

\* C32: a frame that lacks a required attribute, or has an unknown command,
\* delivers nothing and leaves the partial-event slot, in flight or not, with
\* every field as it was; no delivered event was assembled from such a frame.
C32_SkippedFrameLeavesSlot ==
    /\ \A k \in DOMAIN frames :
          SkippedFrame(k)
          => /\ ~frames[k].called
             /\ frames[k].in_flight_after = PartialInFlight(SlotBefore(k))
             /\ SlotEvent(frames[k].slot_after) = SlotEvent(SlotBefore(k))
    /\ \A d \in DOMAIN delivered :
          /\ ~SkippedFrame(delivered[d].p_frame)
          /\ delivered[d].n_frame \in DOMAIN frames
          /\ ~SkippedFrame(delivered[d].n_frame)

\* C33: every delivered event has the action, cookie, device and path of one
\* NOTIFY frame and the uid, pid and process path of the first
\* NOTIFY_PROCESS_INFO frame after it, and no NOTIFY frame of any action lies
\* between the two.
C33_PairedWithDirectNotify ==
    \A d \in DOMAIN delivered :
       LET n == delivered[d].n_frame
           p == delivered[d].p_frame
       IN /\ n \in 1..(p - 1)
          /\ frames[n].frame.parse_ok /\ frames[n].frame.cmd = "NOTIFY"
          /\ delivered[d].action = frames[n].frame.act
          /\ delivered[d].cookie = frames[n].frame.cookie
          /\ delivered[d].major = frames[n].frame.major
          /\ delivered[d].minor = frames[n].frame.minor
          /\ delivered[d].event_path = frames[n].frame.path
          /\ IsProcessInfo(p)
          /\ delivered[d].uid = frames[p].frame.uid
          /\ delivered[d].pid = frames[p].frame.tgid
          /\ delivered[d].process_path = frames[p].frame.path
          /\ \A m \in (n + 1)..(p - 1) :
                ~(frames[m].frame.parse_ok
                  /\ frames[m].frame.cmd \in {"NOTIFY", "NOTIFY_PROCESS_INFO"})

\* The statement of C33 when every frame carries all its attributes.
FramesComplete == \A k \in DOMAIN frames : frames[k].frame.parse_ok => frames[k].frame.missing = "none"

C33_CompleteFramesOnly == FramesComplete => C33_PairedWithDirectNotify

\* C31: a NOTIFY_PROCESS_INFO that completes the partial in flight hands the
\* event to the consumer exactly when the action bit of the event is set in
\* the mask the listener has when that frame is handled.
C31_MaskTestedAtProcessInfo ==
    \A k \in DOMAIN frames :
       (HandledProcessInfo(k) /\ InFlightBefore(k))
       => (frames[k].called
           <=> MaskHasAction(frames[k].mask, frames[k - 1].slot_after[1].action))

\* C38: event_listener_set_event_mask returns TRUE exactly when the control
\* file was opened, written and closed; a failed call leaves the in-process
\* mask as it was, and the in-process mask is always the last mask the
\* control file took, the empty mask before the first one.
C38_MaskEqualsLastWritten ==
    /\ event_mask = (IF trace_event_mask = << >> THEN {}
                     ELSE trace_event_mask[Len(trace_event_mask)])
    /\ \A i \in DOMAIN last_mask_call :
          /\ last_mask_call[i].returned <=> last_mask_call[i].fail_at = "none"
          /\ ~last_mask_call[i].returned => event_mask = last_mask_call[i].before
          /\ last_mask_call[i].returned => event_mask = last_mask_call[i].mask

\* A call that failed at fclose while another mask was in force.
C38_Witness ==
    /\ last_mask_call # << >>
    /\ last_mask_call[1].fail_at = "fclose"
    /\ last_mask_call[1].mask # event_mask
    /\ trace_event_mask # << >>


(***************************************************************************)
(* Properties of the rotating log sink.                                    *)
(***************************************************************************)
ArchiveLines(i) == {gz[i].gzip[k] : k \in DOMAIN gz[i].gzip}
LiveLines == IF live = NoFile THEN {} ELSE {live[1][k] : k \in DOMAIN live[1]}

\* C7: from a log directory without archives, after any file_logger_log
\* calls and rotations, completed or aborted, there are at most
\* max_file_count archives base.<i>.gz and each has i < max_file_count.
C7_ArchiveBound ==
    /\ Cardinality(DOMAIN gz) <= max_file_count
    /\ \A i \in DOMAIN gz : i < max_file_count

\* C7 happens: rotations have completed and one was aborted, and every
\* archive index below max_file_count is in use.
C7_Witness ==
    /\ max_file_count > 1
    /\ Cardinality(DOMAIN gz) = max_file_count
    /\ rotations.aborted > 0
    /\ rotations.ok > 1

\* C8: between file_logger_log calls the live file holds at most
\* max_file_size bytes plus one line of maximal length.
C8_LiveSizeBounded ==
    live # NoFile => FileSize(live[1]) <= max_file_size + MaxLineLen

\* C9: no rename and no compression of a rotation overwrites an archive
\* (the oldest generation is deleted, not overwritten); of two archives the
\* one with the larger index holds the older lines; every line of an
\* archive is older than every line of the live file.
C9_RotationMonotone ==
    /\ clobbered = {}
    /\ \A j \in DOMAIN gz, k \in DOMAIN gz :
          j < k => \A old \in ArchiveLines(k), new \in ArchiveLines(j) : old.stamp < new.stamp
    /\ \A i \in DOMAIN gz :
          \A old \in ArchiveLines(i), new \in LiveLines : old.stamp < new.stamp

\* C9 happens: the oldest generation has been deleted by a rotation, and two
\* archives with lines exist beside a live file with lines.
C9_Witness ==
    /\ rotations.deleted > 0
    /\ \E j \in DOMAIN gz, k \in DOMAIN gz :
          j < k /\ ArchiveLines(j) # {} /\ ArchiveLines(k) # {}
    /\ LiveLines # {}

\* The archives are base.0.gz up to base.k.gz for some k < max_file_count.
ArchivesContiguous == \E k \in -1..(max_file_count - 1) : DOMAIN gz = 0..k

\* C36: from an empty log directory, between any two calls of the sink, after
\* completed and after aborted rotations, the archives are base.0.gz up to
\* base.k.gz for some k < max_file_count without a gap, and no uncompressed
\* base.0 exists when no rotation is in progress.
C36_ArchivesContiguous == ArchivesContiguous /\ raw0 = NoFile

\* The statement about the gaps when no rotation was aborted.
C36_WithoutAbortedRotation == rotations.aborted = 0 => ArchivesContiguous

\* C35: once a rotation has succeeded no archive base.<i>.gz with
\* max_file_count <= i < 100 exists, whatever archives the directory held
\* when the sink was created.
C35_NoArchiveBeyondCount ==
    rotations.ok >= 1
    => \A i \in DOMAIN gz : ~(max_file_count <= i /\ i < HYGIENE_LIMIT)

\* What the sweep does reach: an archive at or above max_file_count that is
\* left after a rotation lies beyond an index that has no archive.
C35_ContiguousOnly ==
    (rotations.ok >= 1 /\ rotations.aborted = 0)
    => \A i \in DOMAIN gz :
          (max_file_count <= i /\ i < HYGIENE_LIMIT)
          => \E j \in max_file_count..i : j \notin DOMAIN gz

(***************************************************************************)
(* Properties of the config cache.                                         *)
(***************************************************************************)
\* C10: whatever the bus returns for log_file_count and log_file_size, after
\* the initial load and after every change notification the cached
\* log_file_count is in [1, 20] and the cached log_file_size is in [1, 100].
C10_CachedWithinRange ==
    /\ log_file_count \in 1..LOG_FILE_COUNT_MAX
    /\ log_file_size \in 1..LOG_FILE_SIZE_MAX

\* C11: when a change notification arrives for one of the six known keys
\* and the reload of that key from the bus fails, the cached values are what
\* they were before the notification and the change handler is not called.
C11_FailedReloadKeepsValue ==
    [][ ( /\ Len(change_calls') = Len(change_calls) + 1
          /\ change_calls'[Len(change_calls')].key \in ConfigKeys
          /\ change_calls'[Len(change_calls')].failed )
        => ( /\ \A key \in ConfigKeys : Cached(key)' = Cached(key)
             /\ ~change_calls'[Len(change_calls')].notified ) ]_vars

(***************************************************************************)
(* Properties of the event worker.                                         *)
(***************************************************************************)
\* The validated rename events among the processed ones.
IsRenameAt(i) ==
    /\ processed[i].outcome # "invalid"
    /\ processed[i].ev.action \in RenameActions
IsFromAt(i) == IsRenameAt(i) /\ processed[i].ev.action \in RenameFromActions
IsToAt(i) == IsRenameAt(i) /\ processed[i].ev.action \in RenameToActions
RenamesOf(c) == {i \in DOMAIN processed : IsRenameAt(i) /\ processed[i].ev.cookie = c}

\* The handler calls whose line was formatted from the event with this identity.
LinesOf(id) == {k \in DOMAIN log_out : \E m \in DOMAIN log_out[k].of : log_out[k].of[m] = id}

\* Exactly one line was handed over for the two halves, built from both, with
\* the from-path then the to-path as its last two fields.
PairLogged(i, j) ==
    LET f == processed[i].ev
        t == processed[j].ev
        lines == LinesOf(f.id) \cup LinesOf(t.id)
    IN /\ Cardinality(lines) = 1
       /\ \A k \in lines :
             /\ log_out[k].of = <<f.id, t.id>>
             /\ Len(log_out[k].fields) = 6
             /\ log_out[k].fields[5] = escape_csv_field(f.event_path)
             /\ log_out[k].fields[6] = escape_csv_field(t.event_path)

\* C1, as stated: for every cookie, a validated rename-from and the next
\* validated rename-to with the same cookie processed after it yield exactly
\* one line carrying the from-path then the to-path, whatever is processed
\* between the two halves.
C1_RenamePairAlwaysLogged ==
    \A i, j \in DOMAIN processed :
        ( /\ i < j
          /\ IsFromAt(i)
          /\ IsToAt(j)
          /\ processed[i].ev.cookie = processed[j].ev.cookie
          /\ \A k \in (i + 1)..(j - 1) :
                ~(IsToAt(k) /\ processed[k].ev.cookie = processed[i].ev.cookie) )
        => PairLogged(i, j)

\* C1, amended: the same, provided the rename-from found no entry pending
\* under its cookie (so it was stored) and no other validated rename event
\* with that cookie is processed between the two halves; events with other
\* cookies, plain events and discarded events may come between them.
C1_RenamePairLogged ==
    \A i, j \in DOMAIN processed :
        ( /\ i < j
          /\ processed[i].outcome = "inserted"
          /\ IsToAt(j)
          /\ processed[i].ev.cookie = processed[j].ev.cookie
          /\ \A k \in (i + 1)..(j - 1) :
                ~(IsRenameAt(k) /\ processed[k].ev.cookie = processed[i].ev.cookie) )
        => PairLogged(i, j)

\* A stored rename-from, another validated event, then the matching rename-to:
\* the pair has its line.
C1_Witness ==
    \E i, j \in DOMAIN processed :
        /\ i + 1 < j
        /\ processed[i].outcome = "inserted"
        /\ processed[i + 1].outcome # "invalid"
        /\ processed[j].outcome = "paired"
        /\ processed[i].ev.cookie = processed[j].ev.cookie
        /\ \A k \in (i + 1)..(j - 1) :
              ~(IsRenameAt(k) /\ processed[k].ev.cookie = processed[i].ev.cookie)
        /\ PairLogged(i, j)

\* Every entry of the pending map is stored under the cookie of its event and
\* holds a rename-from.
PendingWellKeyed(table) ==
    \A c \in DOMAIN table :
       table[c].cookie = c /\ table[c].action \in RenameFromActions

\* The worker hands the event at the head of the queue to handle_rename_event
\* and the pending map has an entry under its cookie.
RenameFindsEntry ==
    /\ wpc = "pop" /\ event_queue # << >> /\ processed' # processed
    /\ validate_file_event(Head(event_queue))
    /\ Head(event_queue).action \in RenameActions
    /\ Head(event_queue).cookie \in DOMAIN rename_events

\* C34: the pending map always holds rename-from events under their own
\* cookies, and a rename event that finds an entry under its cookie removes
\* the entry; a line is emitted for the two only when the arriving event is a
\* rename-to, and it is the line of the pair.
C34_PendingMapKeyedAndConsumed ==
    [][ /\ PendingWellKeyed(rename_events')
        /\ RenameFindsEntry
           => LET event == Head(event_queue)
                  from_event == rename_events[event.cookie]
              IN /\ rename_events' = HashRemove(rename_events, event.cookie)
                 /\ log_out' = IF event.action \in RenameToActions
                                THEN Append(log_out, format_rename_event_csv(from_event, event))
                                ELSE log_out ]_vars

\* A second rename-from under a pending cookie was processed: both were
\* dropped, nothing is pending and nothing was emitted.
C34_Witness ==
    /\ \E i, j \in DOMAIN processed :
          /\ i < j
          /\ processed[i].outcome = "inserted"
          /\ processed[j].outcome = "mismatch"
          /\ processed[i].ev.cookie = processed[j].ev.cookie
    /\ rename_events = << >>
    /\ log_out = << >>

\* The queue holds a terminate sentinel.
SentinelQueued == \E i \in DOMAIN event_queue : event_queue[i].action = "ACT_TERMINATE"

\* C39: once event_logger_stop has returned the worker thread has ended and
\* no terminate sentinel is in the queue, and the worker of a later start
\* ends on a sentinel only after a later stop.
C39_RestartAfterStop ==
    /\ (mpc = "idle" /\ ~is_running /\ nstops >= 1)
       => (wpc # "check" /\ wpc # "pop" /\ ~SentinelQueued)
    /\ (nstarts >= 2 /\ worker_exit = "sentinel") => nstops >= 2

\* The statement about the second worker alone.
C39_SecondWorkerKeepsRunning == (nstarts >= 2 /\ worker_exit = "sentinel") => nstops >= 2

\* The accepted events that are valid and not rename events.
IsPlain(ev) == validate_file_event(ev) /\ ev.action \notin RenameActions
PlainAccepted == {a \in DOMAIN accepted : IsPlain(accepted[a].ev)}

\* The lines of plain events come in the order the events were accepted, at
\* most one line each.
LinesInOrder ==
    /\ \A a \in PlainAccepted : Cardinality(LinesOf(accepted[a].ev.id)) <= 1
    /\ \A a, b \in PlainAccepted :
          a < b => \A kb \in LinesOf(accepted[b].ev.id) :
                      \E ka \in LinesOf(accepted[a].ev.id) : ka < kb

\* C2: two validated non-rename events accepted in the order e1, e2 while the
\* logger is running reach the handler in that order, neither reordered nor
\* duplicated nor dropped: once the logger has been freed each accepted plain
\* event has had its line.
C2_DeliveredInOrder ==
    /\ LinesInOrder
    /\ mpc = "freed" => \A a \in PlainAccepted : LinesOf(accepted[a].ev.id) # {}

\* C4: after event_logger_start returned TRUE, every validated non-rename
\* event submitted before any stop is eventually handled exactly once.  In
\* a state where the worker thread has returned although no stop was ever
\* called nothing can be handled any more, so every such event must already
\* have had its line.
C4_StartedWorkerHandlesEvents ==
    (nstops = 0 /\ wpc = "exited")
        => \A a \in PlainAccepted : Cardinality(LinesOf(accepted[a].ev.id)) = 1

\* C5: when event_logger_stop returns, every event that was in the queue ahead
\* of the terminate sentinel has been processed: no event other than a
\* sentinel is left in the queue.
C5_StopDrainsQueue ==
    (mpc = "idle" /\ ~is_running /\ nstops > 0 /\ worker_exit # "flag_before_start")
        => \A i \in DOMAIN event_queue : event_queue[i].action = "ACT_TERMINATE"

\* The accepted event with this identity.
EventById(id) == (CHOOSE a \in {accepted[k] : k \in DOMAIN accepted} : a.ev.id = id).ev
LinesForCookie(c) ==
    {k \in DOMAIN log_out :
        \E m \in DOMAIN log_out[k].of :
            /\ EventById(log_out[k].of[m]).action \in RenameActions
            /\ EventById(log_out[k].of[m]).cookie = c}

\* C6: a cookie for which only rename-to events were processed, or only
\* rename-from events, has no line; an orphan rename-to leaves nothing
\* pending, and a single unpaired rename-from stays in the pending table
\* until event_logger_free, which releases it without a line.
C6_UnpairedRenameSilent ==
    \A c \in {processed[i].ev.cookie : i \in DOMAIN processed} :
        /\ (RenamesOf(c) # {} /\ \A i \in RenamesOf(c) : IsToAt(i))
              => (LinesForCookie(c) = {} /\ c \notin DOMAIN rename_events)
        /\ (RenamesOf(c) # {} /\ \A i \in RenamesOf(c) : IsFromAt(i))
              => LinesForCookie(c) = {}
        /\ \A i \in RenamesOf(c) :
              (RenamesOf(c) = {i} /\ IsFromAt(i))
                 => /\ mpc # "freed" => /\ c \in DOMAIN rename_events
                                        /\ rename_events[c] = processed[i].ev
                    /\ mpc = "freed" => rename_events = << >>

\* The logger was freed after an orphan rename-to under one cookie and a
\* lone rename-from under another were processed.
C6_Witness ==
    /\ mpc = "freed"
    /\ \E i, j \in DOMAIN processed :
          /\ processed[i].outcome = "orphan"
          /\ RenamesOf(processed[i].ev.cookie) = {i}
          /\ processed[j].outcome = "inserted"
          /\ RenamesOf(processed[j].ev.cookie) = {j}
    /\ log_out = << >>

(***************************************************************************)
(* Properties of the log sink: failures.                                   *)
(***************************************************************************)
\* The calls whose bytes are in some file of a log directory.
StampsIn(l, r, g) ==
    {c.stamp : c \in IF l = NoFile THEN {} ELSE {l[1][k] : k \in DOMAIN l[1]}}
    \cup {c.stamp : c \in IF r = NoFile THEN {} ELSE {r[1][k] : k \in DOMAIN r[1]}}
    \cup UNION {{g[i].gzip[k].stamp : k \in DOMAIN g[i].gzip} : i \in DOMAIN g}

CompressFailures == {"g_file_read", "g_file_replace", "g_output_stream_splice", "g_file_delete"}

\* C16: a rotation whose deletion of the oldest archive, rename of an
\* archive, rename of the live file, compression of base.0 or reopening
\* fails leaves the stream closed, has run no step after the failed one and
\* has not written the line; with the stream closed file_logger_log changes
\* no file and no counter.
C16_AbortedRotationStops ==
    [][ /\ (rotations'.aborted = rotations.aborted + 1)
           => LET f == rotations'.failed_at
                  oldest == max_file_count - 1
                  SameBelow(n) ==
                     \A i \in 0..(n - 1) :
                        /\ i \in DOMAIN gz' <=> i \in DOMAIN gz
                        /\ i \in DOMAIN gz => gz'[i] = gz[i]
                  Untouched == live' = live /\ raw0' = raw0
              IN /\ ~out_stream'
                 /\ (nwrites + 1) \notin StampsIn(live', raw0', gz')
                 /\ f.at \in {"g_unlink_oldest", "g_rename_archive", "g_rename_live",
                              "g_file_append_to"} \cup CompressFailures
                 /\ f.at = "g_unlink_oldest"
                       => /\ oldest \in DOMAIN gz' /\ gz'[oldest] = gz[oldest]
                          /\ SameBelow(oldest) /\ Untouched
                 /\ f.at = "g_rename_archive"
                       => /\ f.n \in DOMAIN gz' /\ gz'[f.n] = gz[f.n]
                          /\ SameBelow(f.n) /\ Untouched
                 /\ f.at = "g_rename_live"
                       => live # NoFile /\ Untouched /\ 0 \notin DOMAIN gz'
                 /\ f.at \in CompressFailures
                       => live' = NoFile /\ raw0' = live
                 /\ f.at = "g_file_append_to"
                       => live' = NoFile /\ raw0' = NoFile /\ 0 \in DOMAIN gz'
        /\ (~out_stream /\ nwrites' = nwrites + 1)
           => UNCHANGED <<out_stream, current_file_size, live, raw0, gz, clobbered, rotations>>
      ]_vars

\* C16 happens: a rotation was aborted by a failed rename of an archive and
\* file_logger_log has been called again since.
C16_Witness ==
    /\ rotations.aborted = 1
    /\ rotations.failed_at.at = "g_rename_archive"
    /\ nrestarts = 0
    /\ ~out_stream
    /\ nwrites > rotations.failed_call

\* C17: while the stream is open current_file_size is the number of bytes
\* in the live file, after any file_logger_log calls with failed or partial
\* writes, failed flushes and rotations.
C17_SizeTracksLiveFile ==
    (out_stream /\ live # NoFile) => current_file_size = FileSize(live[1])

\* The lines held in the archives, base.0 and the live file.
KeptLines == StampsIn(live, raw0, gz)

\* C19, as stated: after the 20 lines the live file and base.0.gz,
\* base.1.gz, base.2.gz exist, base.3.gz does not, and archives and live
\* file together hold 20 lines.
C19_AllLinesKept ==
    nwrites = ScenarioLines
    => /\ live # NoFile
       /\ DOMAIN gz = 0..(ScenarioFileCount - 1)
       /\ Cardinality(KeptLines) = ScenarioLines

\* C19, amended: after the 20 lines the live file and base.0.gz, base.1.gz,
\* base.2.gz exist, base.3.gz does not, every one of these holds one line
\* and together they hold the last max_file_count + 1 = 4 lines.
C19_NewestLinesKept ==
    nwrites = ScenarioLines
    => /\ live # NoFile /\ Len(live[1]) = 1
       /\ DOMAIN gz = 0..(ScenarioFileCount - 1)
       /\ \A i \in DOMAIN gz : Len(gz[i].gzip) = 1 /\ gz[i].gzip[1].stamp = ScenarioLines - 1 - i
       /\ raw0 = NoFile
       /\ KeptLines = (ScenarioLines - ScenarioFileCount)..ScenarioLines

\* C19 happens: the 20 lines were given to the sink, and every call after
\* the first rotated.
C19_Witness ==
    /\ nwrites = ScenarioLines
    /\ out_stream
    /\ max_file_size = ScenarioFileSize
    /\ rotations.ok = ScenarioLines - 1
    /\ rotations.deleted = ScenarioLines - 1 - ScenarioFileCount

(***************************************************************************)
(* Properties of the daemon's main.                                        *)
(***************************************************************************)
\* C12: when a start-up step before the service main loop fails, the
\* service main loop is never run and the process exits with a non-zero code.
C12_StartupFailureExitsNonZero ==
    (main_pc = "exited" /\ failed_step # << >>) => (~service_ran /\ ret # 0)

\* C13: once on_signal has handled a signal while main was waiting for the
\* kernel module, start-up does not go on into the service main loop.
C13_SignalStopsStartup ==
    (\E i \in 1..Len(handled) : handled[i].phase = "kernel_wait") => ~service_ran

\* C14: the restart flag is set, and the watchdog quits the loop, only when
\* the control directory exists with another inode than the captured one;
\* after the service main loop has run the exit code is 1 exactly when the
\* flag is set, and 0 otherwise.
C14_ExitCodeReflectsReload ==
    [][ /\ (~do_restart /\ do_restart')
           => (module_ino # Absent /\ module_ino # captured_ino)
        /\ ("reload" \in timers /\ "reload" \notin timers')
           => (module_ino # Absent /\ module_ino # captured_ino /\ do_restart')
        /\ (main_pc' = "exited" /\ service_ran')
           => (ret' = IF do_restart' THEN 1 ELSE 0) ]_vars

C14_Witness ==
    /\ main_pc = "exited"
    /\ service_ran
    /\ ret = 1
    /\ handled = << >>

\* The components main built, in the order in which their free was called.
ReleasedBuilt == SelectSeq(released, LAMBDA c : c \in built)

IsSubSeqOf(s, t) ==
    \E keep \in SUBSET (1..Len(t)) :
       s = SelectSeq(t, LAMBDA c : \E k \in keep : t[k] = c)

\* C15: on every exit path the components are released in the order
\* listener, worker, sink, config; no event is pushed to the worker's queue
\* once its stop has begun, the worker thread is joined before the sink is
\* freed, and the sink's write is not called on a freed sink.
C15_OrderedRelease ==
    [][ /\ IsSubSeqOf(ReleasedBuilt', <<"listener", "worker", "sink", "config">>)
        /\ (main_pc' = "exited") => (\A c \in built' : \E k \in 1..Len(released') : released'[k] = c)
        /\ (accepted' # accepted) => (nstops = 0 /\ released = << >>)
        /\ (\E k \in 1..Len(released') : released'[k] = "sink") => (wpc' = "none")
        /\ (log_out' # log_out) => (\A k \in 1..Len(released) : released[k] # "sink") ]_vars

C15_Witness ==
    /\ main_pc = "exited"
    /\ service_ran
    /\ Len(log_out) > 0
    /\ worker_exit = "sentinel"
    /\ ReleasedBuilt = <<"listener", "worker", "sink", "config">>

(***************************************************************************)
(* Properties of the CSV text.                                             *)
(***************************************************************************)
\* The values of the fields of the line for the formatted event.
FieldValues ==
    <<<<Timestamp>>, csv_in.from.process_path, <<ToString(csv_in.from.uid)>>,
      <<ToString(csv_in.from.pid)>>, <<event_action_to_string(csv_in.from.action)>>,
      csv_in.from.event_path>>
    \o (IF csv_in.to = << >> THEN << >> ELSE <<csv_in.to[1].event_path>>)

QuotesIn(field) == Cardinality({i \in DOMAIN field : field[i] = "\""})

\* The field is emitted as the claim says: in quotes with the quotes inside
\* doubled when it holds a comma, a quote, LF or CR, and as it is otherwise.
EmittedAsSpecified(field) ==
    LET emitted == escape_csv_field(field)
    IN IF \E i \in DOMAIN field : field[i] \in {",", "\"", "\n", "\r"}
       THEN /\ Len(emitted) = Len(field) + QuotesIn(field) + 2
            /\ Head(emitted) = "\"" /\ emitted[Len(emitted)] = "\""
            /\ QuotesIn(emitted) = 2 * QuotesIn(field) + 2
       ELSE emitted = field

\* C18: an RFC 4180 parser reads the emitted line as one record whose
\* fields are the original values, for every action kind and all paths over
\* an alphabet with comma, quote, LF and CR; fields with one of these are
\* quoted with inner quotes doubled, the others are emitted as they are.
C18_CsvRoundTrip ==
    csv_out # << >>
    => /\ ParseCsv(csv_out[1]) = <<FieldValues>>
       /\ \A k \in {2, 6, 7} : k <= Len(FieldValues) => EmittedAsSpecified(FieldValues[k])

\* C18 happens: a rename line whose three paths need a comma, a quote and a
\* line break quoted has been formatted.
C18_Witness ==
    /\ csv_out # << >>
    /\ csv_in.to # << >>
    /\ csv_in.from.process_path = <<"\"">>
    /\ csv_in.from.event_path = <<",">>
    /\ csv_in.to[1].event_path = <<"\n">>

(***************************************************************************)
(* Properties of the worker: resilience.                                   *)
(***************************************************************************)
\* What the worker did with an event that it could not log.
RecoverableOutcomes == {"invalid", "orphan", "mismatch"}

\* The worker left its loop although event_logger_stop was never called.
EndedWithoutStop == wpc = "exited" /\ nstops = 0

\* A valid plain event, submitted after an event that the worker could not
\* log, has no line although the worker has ended.
LostAfterBadEvent ==
    /\ wpc = "exited"
    /\ \E a \in PlainAccepted :
          /\ LinesOf(accepted[a].ev.id) = {}
          /\ \E i \in DOMAIN processed :
                /\ processed[i].outcome \in RecoverableOutcomes
                /\ processed[i].ev.id < accepted[a].ev.id

\* C20: the worker ends only after event_logger_stop was called, and a valid
\* plain event submitted after an invalid event, an orphan rename-to or a
\* mismatched pair was processed is emitted.
C20_WorkerSurvivesBadEvents == ~EndedWithoutStop /\ ~LostAfterBadEvent

(***************************************************************************)
(* Properties of the worker: validation.                                   *)
(***************************************************************************)
\* The event is what C21 calls valid.
ValidForLine(ev) ==
    /\ ev.action \in ListedActions
    /\ ev.event_path # NoPath
    /\ ev.process_path # NoPath
    /\ ev.pid > 0

\* C21: every line handed to the handler is built only from events with one
\* of the ten listed actions, a non-empty event_path, a non-empty
\* process_path and pid > 0; an event without these has no line.
C21_LinesOnlyFromValidEvents ==
    \A a \in DOMAIN accepted :
       ~ValidForLine(accepted[a].ev) => LinesOf(accepted[a].ev.id) = {}

(***************************************************************************)
(* Properties of the event logger API.                                     *)
(***************************************************************************)
\* C22: event_logger_stop on a logger that is not running, never started or
\* already stopped, changes nothing: no sentinel is pushed, no thread is
\* joined, no line is handed to the handler and the logger state is what it
\* was, so a second stop after a stop has no effect.
C22_StopWhenNotRunningIsNoOp ==
    (last_call.op = "stop" /\ ~last_call.running) => ~last_call.changed

\* A stop was called on a logger that an earlier stop had already stopped.
C22_Witness ==
    /\ last_call.op = "stop"
    /\ ~last_call.running
    /\ nstops = 1
    /\ mpc = "idle"

Retained(id) ==
    \/ \E i \in DOMAIN event_queue : event_queue[i].action # "ACT_TERMINATE" /\ event_queue[i].id = id
    \/ \E i \in DOMAIN rename_events : rename_events[i].id = id
    \/ LinesOf(id) # {}
    \/ \E i \in DOMAIN processed : processed[i].ev.id = id

\* C24: an event submitted while the logger is not running is discarded: the
\* call changes neither the queue nor the pending renames, and the event is
\* never handled, also when the logger is started afterwards.
C24_EventDiscardedWhenNotRunning ==
    /\ (last_call.op = "log_event" /\ ~last_call.running) => ~last_call.changed
    /\ \A id \in discarded : ~Retained(id)

\* An event was discarded, the logger was started afterwards and handled a
\* later event.
C24_Witness ==
    /\ 1 \in discarded
    /\ is_running
    /\ LinesOf(2) # {}

(***************************************************************************)
(* Properties of the configuration applied to the running daemon.          *)
(***************************************************************************)
\* C25: once the service loop runs, and after every change notification, the
\* listener's in-process mask is the cached log_events_type when the cached
\* log_events is TRUE and empty otherwise; a change of disable_event_merge
\* that was applied wrote the cached flag to the control file and left the
\* mask and the verbosity alone, and a change of print_debug_log set the
\* verbosity to the cached flag and left the mask and the control file alone.
C25_MaskFollowsConfig ==
    /\ rc_pc = "service_loop" => event_mask = get_log_events_type(log_events, log_events_type)
    /\ (last_reconfig.key = "disable_event_merge" /\ last_reconfig.notified /\ last_reconfig.io_ok)
       => /\ merge_file = <<disable_event_merge>>
          /\ event_mask = last_reconfig.mask_before
          /\ debug_log = last_reconfig.debug_before
    /\ (last_reconfig.key = "print_debug_log" /\ last_reconfig.notified)
       => /\ debug_log = <<print_debug_log>>
          /\ event_mask = last_reconfig.mask_before
          /\ merge_file = last_reconfig.merge_before

\* The statement of C25 when every write to the control files succeeded.
C25_WithoutWriteFailures == ~last_reconfig.io_failed => C25_MaskFollowsConfig

\* The statement of C25 when no reload failed and every write to the control
\* files succeeded.
C25_WithoutFailures ==
    ((\A i \in DOMAIN change_calls : ~change_calls[i].failed) /\ ~last_reconfig.io_failed)
       => C25_MaskFollowsConfig

(***************************************************************************)
(* Properties of the publisher of the unnamed devices.                     *)
(***************************************************************************)
\* The minors the rows libmount delivered ask for: at most MAX_MINOR, of a
\* row with major 0 and one of the four filesystem types.
WantedMinors(rows) ==
    {rows[i].minor : i \in {k \in DOMAIN rows : /\ rows[k].major = 0
                                                /\ rows[k].minor <= MAX_MINOR
                                                /\ rows[k].fstype \in FsTypes}}

WrittenMinors(op) ==
    {DecimalValue(vfs_writes[i].arg) : i \in {k \in DOMAIN vfs_writes : vfs_writes[k].op = op}}

\* C26: after a mounts-changed notification whose read and writes of the
\* control file succeeded, the published set is the set the mount table asks
\* for; every "r" names a minor that was published, every "a" one that was
\* not, and a minor that was published and is asked for is not written.
C26_PublishedMatchesMounts ==
    (vfs_handled # << >> /\ vfs_handled[Len(vfs_handled)].read_ok
                         /\ vfs_handled[Len(vfs_handled)].write_ok)
    => LET before == vfs_handled[Len(vfs_handled)].before
           wanted == WantedMinors(vfs_handled[Len(vfs_handled)].rows)
       IN /\ published = wanted
          /\ published = (before \ WrittenMinors("r")) \cup WrittenMinors("a")
          /\ WrittenMinors("r") \subseteq before
          /\ WrittenMinors("a") \cap before = {}
          /\ (WrittenMinors("r") \cup WrittenMinors("a")) \cap (before \cap wanted) = {}

\* A notification removed one minor and added another while a third, whose
\* text sorts between theirs, stayed published.
C26_Witness ==
    /\ vfs_handled # << >>
    /\ vfs_handled[Len(vfs_handled)].read_ok
    /\ vfs_handled[Len(vfs_handled)].write_ok
    /\ WrittenMinors("r") # {}
    /\ WrittenMinors("a") # {}
    /\ vfs_handled[Len(vfs_handled)].before \cap WantedMinors(mtab) # {}
    /\ vfs_handled[Len(vfs_handled)].rows = mtab

\* C37: a mounts-changed notification whose read of the published set
\* failed writes nothing; otherwise it makes one write per minor that is
\* published and not asked for or asked for and not published, each write
\* naming that one minor, and every "r" write comes before every "a" write.
C37_OneWritePerChangedMinor ==
    vfs_handled # << >>
    => LET h == vfs_handled[Len(vfs_handled)]
           wanted == WantedMinors(h.rows)
           gone == h.before \ wanted
           new == wanted \ h.before
       IN IF ~h.read_ok
          THEN vfs_writes = << >>
          ELSE /\ Len(vfs_writes) = Cardinality(gone \cup new)
               /\ \A i \in DOMAIN vfs_writes :
                     /\ vfs_writes[i].op \in {"r", "a"}
                     /\ vfs_writes[i].arg = Decimal(DecimalValue(vfs_writes[i].arg))
                     /\ vfs_writes[i].op = "r" => DecimalValue(vfs_writes[i].arg) \in gone
                     /\ vfs_writes[i].op = "a" => DecimalValue(vfs_writes[i].arg) \in new
               /\ \A i, j \in DOMAIN vfs_writes :
                     /\ (i < j /\ vfs_writes[j].op = "r") => vfs_writes[i].op = "r"
                     /\ i # j => vfs_writes[i].arg # vfs_writes[j].arg

\* A notification made two "r" writes and then an "a" write.
C37_Witness ==
    /\ vfs_handled # << >>
    /\ vfs_handled[Len(vfs_handled)].read_ok
    /\ Len(vfs_writes) = 3
    /\ vfs_writes[1].op = "r" /\ vfs_writes[2].op = "r" /\ vfs_writes[3].op = "a"

(***************************************************************************)
(* Properties of the mount index of the daemon.                            *)
(***************************************************************************)
\* Row i of the table has root "/" and so has every mount on its parent
\* chain up to the mount at "/" (at most fuel mounts up).
RECURSIVE ChainAllRoot(_, _, _)
ChainAllRoot(table, i, fuel) ==
    /\ table[i].root = "/"
    /\ \/ table[i].target = "/"
       \/ /\ fuel > 0
          /\ \E p \in DOMAIN table :
                table[p].id = table[i].parent /\ ChainAllRoot(table, p, fuel - 1)

IndexedDevices(table) ==
    {table[i].device : i \in {k \in DOMAIN table : ChainAllRoot(table, k, Len(table))}}

LastParsed == mount_updates[Len(mount_updates)]

\* C27: after mount_info_update, whatever the order of the rows, a device has
\* an entry in the device to mount point index exactly when the table has a
\* mount of it with root "/" whose parent chain up to the mount at "/" has
\* root "/" throughout.
C27_IndexHoldsAllRootChains ==
    (mount_updates # << >> /\ LastParsed # NoTable /\ LastParsed[1] = mount_table)
    => DOMAIN device_mount_points = IndexedDevices(mount_table)

\* The statement of C27 for tables that list every mount after its parent.
ParentsFirst(table) ==
    \A i \in DOMAIN table :
       \A p \in DOMAIN table : table[p].id = table[i].parent => p < i

C27_ParentsFirstOnly ==
    (mount_updates # << >> /\ LastParsed # NoTable /\ LastParsed[1] = mount_table
     /\ ParentsFirst(mount_table))
    => DOMAIN device_mount_points = IndexedDevices(mount_table)

\* The root-mount tree after the first i rows of a table.
TreeAfter(table, i) == UpdateFrom(SubSeq(table, 1, i), 1, << >>, << >>, FALSE).tree

\* The walk of is_mount_chain_all_root (mount_info.c:79-90) cut off after
\* fuel records that are not at "/": where it ends, or that it has not ended.
RECURSIVE ParentWalk(_, _, _)
ParentWalk(root_mount_tree, parent_mount_id, fuel) ==
    IF parent_mount_id \notin DOMAIN root_mount_tree THEN "not_found"
    ELSE IF root_mount_tree[parent_mount_id].mount_point = "/" THEN "root"
    ELSE IF fuel = 0 THEN "unfinished"
    ELSE ParentWalk(root_mount_tree, root_mount_tree[parent_mount_id].parent_mount_id, fuel - 1)

\* C40: in every root-mount tree mount_info_update builds, after any number
\* of rows, each record is at "/" or the walk from its parent id reaches a
\* record at "/" within as many steps as the tree has records; so the walk
\* of is_mount_chain_all_root for any row ends at a record at "/" or at an id
\* the tree does not have.
C40_ParentWalkEnds ==
    (mount_updates # << >> /\ LastParsed # NoTable)
    => \A i \in 0..Len(LastParsed[1]) :
          LET tree == TreeAfter(LastParsed[1], i)
              n == Cardinality(DOMAIN tree)
          IN /\ \A k \in DOMAIN tree :
                   \/ tree[k].mount_point = "/"
                   \/ ParentWalk(tree, tree[k].parent_mount_id, n) = "root"
             /\ \A r \in DOMAIN LastParsed[1] :
                   ParentWalk(tree, LastParsed[1][r].parent, n) \in {"root", "not_found"}

\* A table was parsed whose tree has a record below a record that is not at
\* "/": the walk from it takes two steps.
C40_Witness ==
    /\ mount_updates # << >> /\ LastParsed # NoTable
    /\ LET tree == TreeAfter(LastParsed[1], Len(LastParsed[1]))
       IN \E k \in DOMAIN tree :
             /\ tree[k].mount_point # "/"
             /\ tree[k].parent_mount_id \in DOMAIN tree
             /\ tree[tree[k].parent_mount_id].mount_point # "/"

\* C28: after every mount_info_update that parsed the table, exist_lowerfs is
\* TRUE exactly when the table has a row of type fuse.dlnfs or ulnfs.
C28_LowerfsFlagFollowsTable ==
    (mount_updates # << >> /\ LastParsed # NoTable /\ LastParsed[1] = mount_table)
    => (exist_lowerfs <=> \E i \in DOMAIN mount_table : mount_table[i].fstype \in LowerFsTypes)

=============================================================================
